---------------------------- MODULE Spec2Model ----------------------------
(***************************************************************************)
(* Model of CompiladorModerno.py: the three-stage analysis pipeline        *)
(* AnalizadorLexico -> AnalizadorSintactico -> AnalizadorSemantico driven  *)
(* by CompiladorPython.compilar.                                           *)
(*                                                                         *)
(* Text is a sequence of one-character strings, so a Python str "x=1" is   *)
(* <<"x", "=", "1">>.  Cursors keep Python's 0-based indexing; Car and     *)
(* Rebanada translate the accesses s[i] and s[a:b].  The character domain  *)
(* is ASCII: letters, digits, blank, tab, line feed and punctuation.       *)
(***************************************************************************)
EXTENDS Integers, Sequences, FiniteSets, TLC

(***************************************************************************)
(* Character classes and the case mapping of str.lower().                  *)
(***************************************************************************)
AlfaMin ==
    <<"a", "b", "c", "d", "e", "f", "g", "h", "i", "j", "k", "l", "m", "n", "o",
      "p", "q", "r", "s", "t", "u", "v", "w", "x", "y", "z">>

AlfaMay ==
    <<"A", "B", "C", "D", "E", "F", "G", "H", "I", "J", "K", "L", "M", "N", "O",
      "P", "Q", "R", "S", "T", "U", "V", "W", "X", "Y", "Z">>

Minusculas == {AlfaMin[k] : k \in 1..Len(AlfaMin)}

Mayusculas == {AlfaMay[k] : k \in 1..Len(AlfaMay)}

Letras == Minusculas \cup Mayusculas

Digitos ==
    {"0", "1", "2", "3", "4", "5", "6", "7", "8", "9"}

\* str.isspace() on the modelled characters (a line never holds "\n")
Espacios == {" ", "\t", "\n"}

isspace(c) == c \in Espacios

isdigit(c) == c \in Digitos

isalpha(c) == c \in Letras

isalnum(c) == c \in Letras \cup Digitos

lower(c) ==
    IF c \in Mayusculas
    THEN AlfaMin[CHOOSE k \in 1..Len(AlfaMay) : AlfaMay[k] = c]
    ELSE c

isupper(c) == c \in Mayusculas

(***************************************************************************)
(* Python sequence helpers.                                                *)
(***************************************************************************)
Minimo(S) == CHOOSE x \in S : \A y \in S : x <= y

Maximo(a, b) == IF a >= b THEN a ELSE b

\* s[i], 0-based
Car(s, i) == s[i + 1]

\* s[a:b], 0-based, clamped to the length as Python slices are
Rebanada(s, a, b) == SubSeq(s, a + 1, IF b <= Len(s) THEN b ELSE Len(s))

RECURSIVE lstrip(_)
lstrip(s) == IF s # << >> /\ isspace(Head(s)) THEN lstrip(Tail(s)) ELSE s

RECURSIVE rstrip(_)
rstrip(s) ==
    IF s # << >> /\ isspace(s[Len(s)])
    THEN rstrip(SubSeq(s, 1, Len(s) - 1))
    ELSE s

strip(s) == rstrip(lstrip(s))

\* s.replace(c, '')
quitar(s, c) == SelectSeq(s, LAMBDA x : x # c)

\* ' ' * n
RECURSIVE repetir(_, _)
repetir(c, n) == IF n <= 0 THEN << >> ELSE <<c>> \o repetir(c, n - 1)

\* codigo.split('\n')
RECURSIVE split(_)
split(s) ==
    LET cortes == {k \in 1..Len(s) : s[k] = "\n"}
    IN  IF cortes = {}
        THEN <<s>>
        ELSE LET k == Minimo(cortes)
             IN  <<SubSeq(s, 1, k - 1)>> \o split(SubSeq(s, k + 1, Len(s)))

(***************************************************************************)
(* Token and Error records (dataclasses Token, Error).  An Error keeps     *)
(* the message template in mensaje and the interpolated value in dato;     *)
(* the suggestion text is a function of both.  Nada is Python's None.      *)
(***************************************************************************)
Nada == [tipo |-> "NADA"]

Token(tipo, valor, linea, columna) ==
    [tipo |-> tipo, valor |-> valor, linea |-> linea, columna |-> columna]

Error(tipo, mensaje, dato, linea, columna) ==
    [tipo |-> tipo, mensaje |-> mensaje, dato |-> dato,
     linea |-> linea, columna |-> columna]

(***************************************************************************)
(* AnalizadorLexico.__init__: the fixed tables.                            *)
(***************************************************************************)
palabras_reservadas ==
    {<<"F", "a", "l", "s", "e">>, <<"N", "o", "n", "e">>, <<"T", "r", "u", "e">>,
     <<"a", "n", "d">>, <<"a", "s">>, <<"a", "s", "s", "e", "r", "t">>,
     <<"a", "s", "y", "n", "c">>, <<"a", "w", "a", "i", "t">>,
     <<"b", "r", "e", "a", "k">>, <<"c", "l", "a", "s", "s">>,
     <<"c", "o", "n", "t", "i", "n", "u", "e">>, <<"d", "e", "f">>,
     <<"d", "e", "l">>, <<"e", "l", "i", "f">>, <<"e", "l", "s", "e">>,
     <<"e", "x", "c", "e", "p", "t">>, <<"f", "i", "n", "a", "l", "l", "y">>,
     <<"f", "o", "r">>, <<"f", "r", "o", "m">>, <<"g", "l", "o", "b", "a", "l">>,
     <<"i", "f">>, <<"i", "m", "p", "o", "r", "t">>, <<"i", "n">>, <<"i", "s">>,
     <<"l", "a", "m", "b", "d", "a">>,
     <<"n", "o", "n", "l", "o", "c", "a", "l">>, <<"n", "o", "t">>, <<"o", "r">>,
     <<"p", "a", "s", "s">>, <<"r", "a", "i", "s", "e">>,
     <<"r", "e", "t", "u", "r", "n">>, <<"t", "r", "y">>,
     <<"w", "h", "i", "l", "e">>, <<"w", "i", "t", "h">>,
     <<"y", "i", "e", "l", "d">>}

operadores ==
    {<<"+">>, <<"-">>, <<"*">>, <<"*", "*">>, <<"/">>, <<"/", "/">>, <<"%">>,
     <<"@">>, <<"<", "<">>, <<">", ">">>, <<"&">>, <<"|">>, <<"^">>, <<"~">>,
     <<"<">>, <<">">>, <<"<", "=">>, <<">", "=">>, <<"=", "=">>, <<"!", "=">>,
     <<"=">>, <<"+", "=">>, <<"-", "=">>, <<"*", "=">>, <<"/", "=">>,
     <<"/", "/", "=">>, <<"%", "=">>, <<"@", "=">>, <<"&", "=">>, <<"|", "=">>,
     <<"^", "=">>, <<">", ">", "=">>, <<"<", "<", "=">>, <<"*", "*", "=">>}

delimitadores ==
    {<<"(">>, <<")">>, <<"[">>, <<"]">>, <<"{">>, <<"}">>, <<",">>, <<":">>,
     <<".">>, <<";">>, <<"@">>, <<"=">>, <<"-", ">">>, <<"+", "=">>,
     <<"-", "=">>, <<"*", "=">>, <<"/", "=">>, <<"/", "/", "=">>, <<"%", "=">>,
     <<"@", "=">>, <<"&", "=">>, <<"|", "=">>, <<"^", "=">>, <<">", ">", "=">>,
     <<"<", "<", "=">>, <<"*", "*", "=">>, <<"=", "=">>}

ComillasTriples == {<<"\"", "\"", "\"">>, <<"'", "'", "'">>}

\* the literal list of _extraer_operador; its third entry is the 4-character
\* string ' **=' and so equals no 3-character slice
operadores_tres == {<<">", ">", ">">>, <<"<", "<", "=">>, <<" ", "*", "*", "=">>}

(***************************************************************************)
(* The validating patterns of __init__, as matchers over character         *)
(* sequences.                                                              *)
(***************************************************************************)
TodosEn(s, S) == \A k \in 1..Len(s) : s[k] \in S

SinSigno(s) == IF s # << >> /\ Head(s) \in {"+", "-"} THEN Tail(s) ELSE s

\* ^[a-zA-Z_][a-zA-Z0-9_]*$
patron_identificador(s) ==
    /\ s # << >>
    /\ Head(s) \in Letras \cup {"_"}
    /\ TodosEn(s, Letras \cup Digitos \cup {"_"})

\* 0[bB][01]+ and its octal and hexadecimal variants
ConPrefijo(s, marcas, cifras) ==
    /\ Len(s) >= 3
    /\ s[1] = "0"
    /\ s[2] \in marcas
    /\ TodosEn(SubSeq(s, 3, Len(s)), cifras)

CifrasHex == Digitos \cup {"a", "b", "c", "d", "e", "f", "A", "B", "C", "D", "E", "F"}

\* ^[+-]?(?:0[bB][01]+|0[oO][0-7]+|0[xX][0-9a-fA-F]+|\d+)$
patron_numero_entero(s) ==
    LET r == SinSigno(s)
    IN  \/ ConPrefijo(r, {"b", "B"}, {"0", "1"})
        \/ ConPrefijo(r, {"o", "O"}, {"0", "1", "2", "3", "4", "5", "6", "7"})
        \/ ConPrefijo(r, {"x", "X"}, CifrasHex)
        \/ (r # << >> /\ TodosEn(r, Digitos))

\* \d+\.?\d*|\.\d+
EsMantisa(m) ==
    LET puntos == {k \in 1..Len(m) : m[k] = "."}
    IN  /\ m # << >>
        /\ TodosEn(m, Digitos \cup {"."})
        /\ \/ (m[1] \in Digitos /\ Cardinality(puntos) <= 1)
           \/ (m[1] = "." /\ Cardinality(puntos) = 1 /\ Len(m) >= 2)

\* [eE][+-]?\d+
EsExponente(x) ==
    /\ x # << >>
    /\ x[1] \in {"e", "E"}
    /\ LET d == SinSigno(Tail(x)) IN d # << >> /\ TodosEn(d, Digitos)

\* ^[+-]?(?:\d+\.?\d*|\.\d+)(?:[eE][+-]?\d+)?$
patron_numero_float(s) ==
    LET r == SinSigno(s)
        marcas == {k \in 1..Len(r) : r[k] \in {"e", "E"}}
    IN  IF marcas = {}
        THEN EsMantisa(r)
        ELSE LET k == Minimo(marcas)
             IN  EsMantisa(SubSeq(r, 1, k - 1)) /\ EsExponente(SubSeq(r, k, Len(r)))

(***************************************************************************)
(* The extractors.  Each returns the triple (token, nueva_pos, error) of   *)
(* the source as a record; token or error is Nada.                         *)
(***************************************************************************)
Extraido(token, pos, error) == [token |-> token, pos |-> pos, error |-> error]

\* AnalizadorLexico._extraer_string
extraer_string(contenido, inicio, num_linea) ==
    LET n == Len(contenido)
    IN  IF inicio + 2 < n /\ Rebanada(contenido, inicio, inicio + 3) \in ComillasTriples
        THEN \* triple-quoted: while i < len(contenido) - 2
             LET quote == Rebanada(contenido, inicio, inicio + 3)
                 cierres == {k \in (inicio + 3)..(n - 3) :
                                Rebanada(contenido, k, k + 3) = quote}
             IN  IF cierres # {}
                 THEN LET k == Minimo(cierres)
                      IN  Extraido(Token("STRING", Rebanada(contenido, inicio, k + 3),
                                         num_linea, inicio + 1),
                                   k + 3, Nada)
                 ELSE Extraido(Nada, Maximo(inicio + 3, n - 2),
                               Error("LEXICO", "String multilinea sin cerrar", quote,
                                     num_linea, inicio + 1))
        ELSE \* single-quoted: while i < len(contenido)
             LET quote == Car(contenido, inicio)
                 cierres == {k \in (inicio + 1)..(n - 1) :
                                /\ Car(contenido, k) = quote
                                /\ (k = 0 \/ Car(contenido, k - 1) # "\\")}
                 saltos == {k \in (inicio + 1)..(n - 1) :
                                Car(contenido, k) # quote /\ Car(contenido, k) = "\n"}
                 paradas == cierres \cup saltos
             IN  IF paradas = {}
                 THEN Extraido(Nada, n,
                               Error("LEXICO", "String sin cerrar al final de linea",
                                     <<quote>>, num_linea, inicio + 1))
                 ELSE LET k == Minimo(paradas)
                      IN  IF k \in cierres
                          THEN Extraido(Token("STRING", Rebanada(contenido, inicio, k + 1),
                                              num_linea, inicio + 1),
                                        k + 1, Nada)
                          ELSE Extraido(Nada, k,
                                        Error("LEXICO",
                                              "String sin cerrar antes de nueva linea",
                                              <<quote>>, num_linea, inicio + 1))

\* while i < len(contenido) and contenido[i] in cifras: i += 1
RECURSIVE consumir(_, _, _)
consumir(contenido, i, cifras) ==
    IF i < Len(contenido) /\ Car(contenido, i) \in cifras
    THEN consumir(contenido, i + 1, cifras)
    ELSE i

\* the digit alphabet that follows each base prefix, separator included
cifras_de_base(prefijo) ==
    IF prefijo = <<"0", "b">> THEN {"0", "1", "_"}
    ELSE IF prefijo = <<"0", "o">> THEN {"0", "1", "2", "3", "4", "5", "6", "7", "_"}
    ELSE CifrasHex \cup {"_"}

\* the "Numero decimal normal" loop of _extraer_numero
RECURSIVE bucle_decimal(_, _, _, _, _)
bucle_decimal(contenido, i, valor, tiene_punto, es_cientifico) ==
    IF i >= Len(contenido)
    THEN [i |-> i, valor |-> valor, tiene_punto |-> tiene_punto,
          es_cientifico |-> es_cientifico]
    ELSE LET char == Car(contenido, i)
         IN  IF isdigit(char)
             THEN bucle_decimal(contenido, i + 1, Append(valor, char),
                                tiene_punto, es_cientifico)
             ELSE IF char = "." /\ ~tiene_punto /\ ~es_cientifico
             THEN bucle_decimal(contenido, i + 1, Append(valor, char),
                                TRUE, es_cientifico)
             ELSE IF lower(char) = "e" /\ ~es_cientifico
             THEN IF i + 1 < Len(contenido) /\ Car(contenido, i + 1) \in {"+", "-"}
                  THEN bucle_decimal(contenido, i + 2,
                                     valor \o <<char, Car(contenido, i + 1)>>,
                                     tiene_punto, TRUE)
                  ELSE bucle_decimal(contenido, i + 1, Append(valor, char),
                                     tiene_punto, TRUE)
             ELSE IF char = "_"
             THEN bucle_decimal(contenido, i + 1, valor, tiene_punto, es_cientifico)
             ELSE [i |-> i, valor |-> valor, tiene_punto |-> tiene_punto,
                   es_cientifico |-> es_cientifico]

\* the test of the extracted text never seeing a bare prefix
prefijo_con_digitos(valor) == Len(valor) < 2

\* the "solo prefijo sin digitos" test: len(valor) == 2
prefijo_incompleto(valor) == Len(valor) = 2

\* AnalizadorLexico._extraer_numero
extraer_numero(contenido, inicio, num_linea) ==
    LET n == Len(contenido)
        signo == IF Car(contenido, inicio) \in {"+", "-"}
                 THEN <<Car(contenido, inicio)>> ELSE << >>
        i0 == inicio + Len(signo)
    IN  IF /\ i0 < n - 1
           /\ Car(contenido, i0) = "0"
           /\ lower(Car(contenido, i0 + 1)) \in {"b", "o", "x"}
        THEN LET prefijo == <<"0", lower(Car(contenido, i0 + 1))>>
                 i == consumir(contenido, i0 + 2, cifras_de_base(prefijo))
                 valor == signo \o Rebanada(contenido, i0, i0 + 2)
                               \o quitar(Rebanada(contenido, i0 + 2, i), "_")
             IN  IF prefijo_incompleto(valor)
                 THEN Extraido(Nada, i,
                               Error("LEXICO", "Numero {prefijo} incompleto", prefijo,
                                     num_linea, inicio + 1))
                 ELSE Extraido(Token("NUMERO", valor, num_linea, inicio + 1), i, Nada)
        ELSE LET b == bucle_decimal(contenido, i0, signo, FALSE, FALSE)
                 numero_sin_separadores == quitar(b.valor, "_")
             IN  IF b.tiene_punto \/ b.es_cientifico
                 THEN IF ~patron_numero_float(numero_sin_separadores)
                      THEN Extraido(Nada, b.i,
                                    Error("LEXICO", "Formato de numero decimal invalido",
                                          b.valor, num_linea, inicio + 1))
                      ELSE Extraido(Token("NUMERO", b.valor, num_linea, inicio + 1),
                                    b.i, Nada)
                 ELSE IF ~patron_numero_entero(numero_sin_separadores)
                      THEN Extraido(Nada, b.i,
                                    Error("LEXICO", "Formato de numero entero invalido",
                                          b.valor, num_linea, inicio + 1))
                      ELSE Extraido(Token("NUMERO", b.valor, num_linea, inicio + 1),
                                    b.i, Nada)

\* AnalizadorLexico._extraer_identificador
extraer_identificador(contenido, inicio, num_linea) ==
    IF ~(isalpha(Car(contenido, inicio)) \/ Car(contenido, inicio) = "_")
    THEN Extraido(Nada, inicio + 1,
                  Error("LEXICO", "Identificador invalido: no puede empezar con",
                        <<Car(contenido, inicio)>>, num_linea, inicio + 1))
    ELSE LET i == consumir(contenido, inicio, Letras \cup Digitos \cup {"_"})
             valor == Rebanada(contenido, inicio, i)
         IN  IF ~patron_identificador(valor)
             THEN Extraido(Nada, i,
                           Error("LEXICO", "Identificador invalido", valor,
                                 num_linea, inicio + 1))
             ELSE Extraido(Token(IF valor \in palabras_reservadas
                                 THEN "PALABRA_RESERVADA" ELSE "IDENTIFICADOR",
                                 valor, num_linea, inicio + 1),
                           i, Nada)

\* the classification testing the delimiter set first
tipo_delimitador(x) == IF x \in delimitadores THEN "DELIMITADOR" ELSE "OPERADOR"

\* tipo = OPERADOR if x in self.operadores else DELIMITADOR
tipo_operador(x) == IF x \in operadores THEN "OPERADOR" ELSE "DELIMITADOR"

\* AnalizadorLexico._extraer_operador
extraer_operador(contenido, inicio, num_linea) ==
    LET n == Len(contenido)
        tres_chars == Rebanada(contenido, inicio, inicio + 3)
        dos_chars == Rebanada(contenido, inicio, inicio + 2)
        un_char == <<Car(contenido, inicio)>>
    IN  IF inicio + 2 < n /\ tres_chars \in operadores_tres
        THEN Extraido(Token(tipo_operador(tres_chars), tres_chars, num_linea, inicio + 1),
                      inicio + 3, Nada)
        ELSE IF inicio + 1 < n /\ (dos_chars \in operadores \/ dos_chars \in delimitadores)
        THEN Extraido(Token(tipo_operador(dos_chars), dos_chars, num_linea, inicio + 1),
                      inicio + 2, Nada)
        ELSE IF un_char \in operadores \/ un_char \in delimitadores
        THEN Extraido(Token(tipo_operador(un_char), un_char, num_linea, inicio + 1),
                      inicio + 1, Nada)
        ELSE Extraido(Nada, inicio + 1,
                      Error("LEXICO", "Simbolo no reconocido", un_char,
                            num_linea, inicio + 1))

(***************************************************************************)
(* AnalizadorLexico._tokenizar_linea: the code before the loop, one pass   *)
(* of the while loop, and the whole line.                                  *)
(***************************************************************************)
\* the indentation test accepting every even width
indentacion_par(indentacion) == indentacion % 2 = 0

\* the multiple-of-4 test on the leading whitespace width
indentacion_valida(indentacion) == indentacion % 4 = 0

\* lines 101-116: blank test, indentation error and token, contenido
inicio_linea(linea, num_linea) ==
    LET indentacion == Len(linea) - Len(lstrip(linea))
    IN  [blanca |-> strip(linea) = << >>,
         errores |-> IF indentacion > 0 /\ ~indentacion_valida(indentacion)
                     THEN <<Error("LEXICO", "Indentacion incorrecta", << >>,
                                  num_linea, 1)>>
                     ELSE << >>,
         tokens |-> IF indentacion > 0
                    THEN <<Token("INDENTACION", repetir(" ", indentacion),
                                 num_linea, 1)>>
                    ELSE << >>,
         contenido |-> strip(linea)]

Pasada(tokens, errores, i, corte) ==
    [tokens |-> tokens, errores |-> errores, i |-> i, corte |-> corte]

\* "if error: errores.append(error) else: tokens.append(token); i = nueva_pos"
DeExtraido(r) ==
    IF r.error # Nada
    THEN Pasada(<< >>, <<r.error>>, r.pos, FALSE)
    ELSE Pasada(<<r.token>>, << >>, r.pos, FALSE)

\* the whitespace branch leaving the cursor where it is
quedarse(i) == i

\* the whitespace branch skipping the character after the blank too
saltar_dos(i) == i + 2

\* "i += 1" of the whitespace branch
saltar_espacio(i) == i + 1

\* lines 119-177: one pass of the while loop with the cursor at i; corte is
\* the break of the comment branch
iterar_linea(contenido, i, num_linea) ==
    LET n == Len(contenido)
        c == Car(contenido, i)
    IN  IF isspace(c)
        THEN Pasada(<< >>, << >>, saltar_espacio(i), FALSE)
        ELSE IF c = "#"
        THEN Pasada(<<Token("COMENTARIO", Rebanada(contenido, i, n), num_linea, i + 1)>>,
                    << >>, i, TRUE)
        ELSE IF \/ c \in {"\"", "'"}
                \/ (i < n - 2 /\ Rebanada(contenido, i, i + 3) \in ComillasTriples)
        THEN DeExtraido(extraer_string(contenido, i, num_linea))
        ELSE IF isdigit(c) \/ (c = "." /\ i + 1 < n /\ isdigit(Car(contenido, i + 1)))
        THEN DeExtraido(extraer_numero(contenido, i, num_linea))
        ELSE IF isalpha(c) \/ c = "_"
        THEN DeExtraido(extraer_identificador(contenido, i, num_linea))
        ELSE LET r == extraer_operador(contenido, i, num_linea)
                 invalido == Error("LEXICO", "Caracter no valido", <<c>>,
                                   num_linea, i + 1)
             IN  IF r.error # Nada
                 THEN \* the error is appended and control falls through
                      Pasada(<< >>, <<r.error, invalido>>, i + 1, FALSE)
                 ELSE IF r.token # Nada
                 THEN Pasada(<<r.token>>, << >>, r.pos, FALSE)
                 ELSE Pasada(<< >>, <<invalido>>, i + 1, FALSE)

RECURSIVE bucle_linea(_, _, _, _, _)
bucle_linea(contenido, i, num_linea, tokens, errores) ==
    IF i >= Len(contenido)
    THEN [tokens |-> tokens, errores |-> errores]
    ELSE LET r == iterar_linea(contenido, i, num_linea)
         IN  IF r.corte
             THEN [tokens |-> tokens \o r.tokens, errores |-> errores \o r.errores]
             ELSE bucle_linea(contenido, r.i, num_linea,
                              tokens \o r.tokens, errores \o r.errores)

\* AnalizadorLexico._tokenizar_linea
tokenizar_linea(linea, num_linea) ==
    LET ini == inicio_linea(linea, num_linea)
    IN  IF ini.blanca
        THEN [tokens |-> << >>, errores |-> << >>]
        ELSE bucle_linea(ini.contenido, 0, num_linea, ini.tokens, ini.errores)

RECURSIVE tokenizar_desde(_, _, _, _)
tokenizar_desde(lineas, num_linea, tokens, errores) ==
    IF num_linea > Len(lineas)
    THEN [tokens |-> tokens, errores |-> errores]
    ELSE LET r == tokenizar_linea(lineas[num_linea], num_linea)
         IN  tokenizar_desde(lineas, num_linea + 1,
                             tokens \o r.tokens, errores \o r.errores)

\* AnalizadorLexico.tokenizar
tokenizar(codigo) == tokenizar_desde(split(codigo), 1, << >>, << >>)

(***************************************************************************)
(* AnalizadorSintactico.  The object's state is the record                 *)
(* [tokens, posicion, errores]; a handler maps the state at its entry to   *)
(* the state at its return.                                                *)
(***************************************************************************)
\* the element of a singleton; a value bound through one is computed once
unico(S) == CHOOSE x \in S : TRUE

Analizador(tokens, posicion, errores) ==
    [tokens |-> tokens, posicion |-> posicion, errores |-> errores]

\* AnalizadorSintactico._token_actual
token_actual(a0) ==
    unico({(
        IF a.posicion < Len(a.tokens) THEN a.tokens[a.posicion + 1] ELSE Nada
    ) : a \in {a0}})

\* _avanzar without the test against the end of the list
avanzar_sin_tope(a0) ==
    unico({(
        [a EXCEPT !.posicion = @ + 1]
    ) : a \in {a0}})

\* AnalizadorSintactico._avanzar
avanzar(a0) ==
    unico({(
        IF a.posicion < Len(a.tokens) THEN [a EXCEPT !.posicion = @ + 1] ELSE a
    ) : a \in {a0}})

\* self.errores.append(Error(TipoError.SINTACTICO, ...))
agregar(a, mensaje, dato, linea, columna) ==
    [a EXCEPT !.errores = Append(@, Error("SINTACTICO", mensaje, dato, linea, columna))]

\* "t and t.valor == v"
es_valor(t, v) == t # Nada /\ t.valor = v

\* "not t or t.valor != v"
falta_valor(t, v) == t = Nada \/ t.valor # v

\* "not t or t.tipo != IDENTIFICADOR"
falta_identificador(t) == t = Nada \/ t.tipo # "IDENTIFICADOR"

\* "t.linea if t else defecto"
linea_de(t, defecto) == IF t # Nada THEN t.linea ELSE defecto

columna_de(t, defecto) == IF t # Nada THEN t.columna ELSE defecto

kw_def == <<"d", "e", "f">>
kw_class == <<"c", "l", "a", "s", "s">>
kw_if == <<"i", "f">>
kw_elif == <<"e", "l", "i", "f">>
kw_else == <<"e", "l", "s", "e">>
kw_for == <<"f", "o", "r">>
kw_in == <<"i", "n">>
kw_while == <<"w", "h", "i", "l", "e">>
kw_try == <<"t", "r", "y">>
kw_except == <<"e", "x", "c", "e", "p", "t">>
kw_finally == <<"f", "i", "n", "a", "l", "l", "y">>
kw_with == <<"w", "i", "t", "h">>
kw_as == <<"a", "s">>
kw_import == <<"i", "m", "p", "o", "r", "t">>
kw_from == <<"f", "r", "o", "m">>

\* AnalizadorSintactico.__init__: self.sentencias
sentencias ==
    {<<"r", "e", "t", "u", "r", "n">>, <<"b", "r", "e", "a", "k">>,
     <<"c", "o", "n", "t", "i", "n", "u", "e">>, <<"p", "a", "s", "s">>,
     <<"r", "a", "i", "s", "e">>, <<"a", "s", "s", "e", "r", "t">>,
     <<"d", "e", "l">>, <<"g", "l", "o", "b", "a", "l">>,
     <<"n", "o", "n", "l", "o", "c", "a", "l">>}

\* the statements of _analizar_sentencia_simple that may carry an expression
sentencias_con_expresion ==
    {<<"r", "e", "t", "u", "r", "n">>, <<"r", "a", "i", "s", "e">>,
     <<"a", "s", "s", "e", "r", "t">>, <<"d", "e", "l">>}

FinDeLinea == {"NUEVA_LINEA", "EOF", "COMENTARIO"}

\* AnalizadorSintactico._analizar_expresion_simple
RECURSIVE analizar_expresion_simple(_)
analizar_expresion_simple(a0) ==
    unico({(
        LET t == token_actual(a)
        IN  IF t # Nada /\ t.tipo \notin FinDeLinea /\ t.valor \notin {<<":">>, <<",">>}
            THEN analizar_expresion_simple(avanzar(a))
            ELSE a
    ) : a \in {a0}})

\* AnalizadorSintactico._analizar_parametros_funcion
RECURSIVE analizar_parametros_funcion(_)
analizar_parametros_funcion(a0) ==
    unico({(
        LET token == token_actual(a)
        IN  IF token = Nada \/ token.valor = <<")">>
            THEN a
            ELSE IF token.tipo = "IDENTIFICADOR"
            THEN LET a1 == avanzar(a)
                     a2 == IF es_valor(token_actual(a1), <<"=">>)
                           THEN LET b == avanzar(a1)
                                IN  IF \/ token_actual(b) = Nada
                                       \/ token_actual(b).valor \in {<<",">>, <<")">>}
                                    THEN agregar(b, "Se esperaba valor por defecto despues de '='",
                                                 << >>, token.linea, token.columna)
                                    ELSE avanzar(b)
                           ELSE a1
                     a3 == IF es_valor(token_actual(a2), <<",">>)
                           THEN avanzar(a2)
                           ELSE IF token_actual(a2) # Nada /\ token_actual(a2).valor # <<")">>
                           THEN agregar(a2, "Se esperaba ',' entre parametros", << >>,
                                        token_actual(a2).linea, token_actual(a2).columna)
                           ELSE a2
                 IN  analizar_parametros_funcion(a3)
            ELSE analizar_parametros_funcion(
                     avanzar(agregar(a, "Parametro invalido", token.valor,
                                     token.linea, token.columna)))
    ) : a \in {a0}})

\* the closing check of a def header without its "not token_colon" half
dos_puntos_distinto(t) == t # Nada /\ t.valor # <<":">>

\* the closing check of a def header: "not token_colon or token_colon.valor != ':'"
falta_dos_puntos(t) == falta_valor(t, <<":">>)

\* AnalizadorSintactico._analizar_definicion_funcion
analizar_definicion_funcion(a0) ==
    unico({(
        LET a1 == avanzar(a)
            token_nombre == token_actual(a1)
        IN  IF falta_identificador(token_nombre)
            THEN agregar(a1, "Se esperaba nombre de funcion despues de 'def'", << >>,
                         linea_de(token_nombre, 1), columna_de(token_nombre, 1))
            ELSE
            LET a2 == avanzar(a1)
                token_paren == token_actual(a2)
            IN  IF falta_valor(token_paren, <<"(">>)
                THEN agregar(a2, "Se esperaba '(' despues del nombre de funcion", << >>,
                             linea_de(token_paren, token_nombre.linea),
                             columna_de(token_paren, token_nombre.columna))
                ELSE
                LET a3 == analizar_parametros_funcion(avanzar(a2))
                    token_paren_cierre == token_actual(a3)
                IN  IF falta_valor(token_paren_cierre, <<")">>)
                    THEN agregar(a3, "Se esperaba ')' para cerrar parametros de funcion", << >>,
                                 linea_de(token_paren_cierre, token_nombre.linea),
                                 columna_de(token_paren_cierre, token_nombre.columna))
                    ELSE
                    LET a4 == avanzar(a3)
                        token_colon == token_actual(a4)
                    IN  IF falta_dos_puntos(token_colon)
                        THEN agregar(a4, "Se esperaba ':' despues de la definicion de funcion",
                                     << >>,
                                     linea_de(token_colon, token_nombre.linea),
                                     columna_de(token_colon, token_nombre.columna))
                        ELSE avanzar(a4)
    ) : a \in {a0}})

\* the "clases base" loop of _analizar_definicion_clase
RECURSIVE analizar_clases_base(_)
analizar_clases_base(a0) ==
    unico({(
        LET t == token_actual(a)
        IN  IF t = Nada \/ t.valor = <<")">>
            THEN a
            ELSE LET a1 == IF t.tipo # "IDENTIFICADOR"
                           THEN agregar(a, "Se esperaba nombre de clase base", << >>,
                                        t.linea, t.columna)
                           ELSE a
                     a2 == avanzar(a1)
                     a3 == IF es_valor(token_actual(a2), <<",">>) THEN avanzar(a2) ELSE a2
                 IN  analizar_clases_base(a3)
    ) : a \in {a0}})

\* AnalizadorSintactico._analizar_definicion_clase
analizar_definicion_clase(a0) ==
    unico({(
        LET a1 == avanzar(a)
            token_nombre == token_actual(a1)
        IN  IF falta_identificador(token_nombre)
            THEN agregar(a1, "Se esperaba nombre de clase despues de 'class'", << >>,
                         linea_de(token_nombre, 1), columna_de(token_nombre, 1))
            ELSE
            LET a2 == IF ~isupper(token_nombre.valor[1])
                      THEN agregar(a1, "El nombre de clase deberia empezar con mayuscula",
                                   token_nombre.valor, token_nombre.linea, token_nombre.columna)
                      ELSE a1
                a3 == avanzar(a2)
                herencia == es_valor(token_actual(a3), <<"(">>)
                a4 == IF herencia THEN analizar_clases_base(avanzar(a3)) ELSE a3
            IN  IF herencia /\ falta_valor(token_actual(a4), <<")">>)
                THEN agregar(a4, "Se esperaba ')' para cerrar herencia", << >>,
                             token_nombre.linea, token_nombre.columna)
                ELSE
                LET a5 == IF herencia THEN avanzar(a4) ELSE a4
                    t == token_actual(a5)
                IN  IF falta_valor(t, <<":">>)
                    THEN agregar(a5, "Se esperaba ':' despues de la definicion de clase", << >>,
                                 linea_de(t, token_nombre.linea),
                                 columna_de(t, token_nombre.columna))
                    ELSE avanzar(a5)
    ) : a \in {a0}})

\* the common tail "verificar dos puntos" of the block handlers
verificar_dos_puntos(a0, mensaje, dato, linea, columna) ==
    unico({(
        LET t == token_actual(a)
        IN  IF falta_valor(t, <<":">>)
            THEN agregar(a, mensaje, dato, linea_de(t, linea), columna_de(t, columna))
            ELSE avanzar(a)
    ) : a \in {a0}})

\* AnalizadorSintactico._analizar_if
analizar_if(a0) ==
    unico({(
        LET token_if == token_actual(a)
            a1 == avanzar(a)
        IN  IF token_actual(a1) = Nada
            THEN agregar(a1, "Se esperaba condicion despues de", token_if.valor,
                         token_if.linea, token_if.columna)
            ELSE verificar_dos_puntos(analizar_expresion_simple(a1),
                                      "Se esperaba ':' despues de la condicion",
                                      token_if.valor, token_if.linea, token_if.columna)
    ) : a \in {a0}})

\* AnalizadorSintactico._analizar_else
analizar_else(a0) ==
    unico({(
        verificar_dos_puntos(avanzar(a), "Se esperaba ':' despues de 'else'", << >>, 1, 1)
    ) : a \in {a0}})

\* AnalizadorSintactico._analizar_for
analizar_for(a0) ==
    unico({(
        LET a1 == avanzar(a)
            t1 == token_actual(a1)
        IN  IF falta_identificador(t1)
            THEN agregar(a1, "Se esperaba variable despues de 'for'", << >>,
                         linea_de(t1, 1), columna_de(t1, 1))
            ELSE
            LET a2 == avanzar(a1)
                t2 == token_actual(a2)
            IN  IF falta_valor(t2, kw_in)
                THEN agregar(a2, "Se esperaba 'in' en bucle for", << >>,
                             linea_de(t2, 1), columna_de(t2, 1))
                ELSE
                LET a3 == avanzar(a2)
                IN  IF token_actual(a3) = Nada
                    THEN agregar(a3, "Se esperaba expresion iterable despues de 'in'",
                                 << >>, 1, 1)
                    ELSE verificar_dos_puntos(analizar_expresion_simple(a3),
                                              "Se esperaba ':' despues del bucle for",
                                              << >>, 1, 1)
    ) : a \in {a0}})

\* AnalizadorSintactico._analizar_while
analizar_while(a0) ==
    unico({(
        LET a1 == avanzar(a)
        IN  IF token_actual(a1) = Nada
            THEN agregar(a1, "Se esperaba condicion despues de 'while'", << >>, 1, 1)
            ELSE verificar_dos_puntos(analizar_expresion_simple(a1),
                                      "Se esperaba ':' despues de la condicion while",
                                      << >>, 1, 1)
    ) : a \in {a0}})

\* AnalizadorSintactico._analizar_try
analizar_try(a0) ==
    unico({(
        verificar_dos_puntos(avanzar(a), "Se esperaba ':' despues de 'try'", << >>, 1, 1)
    ) : a \in {a0}})

\* the optional "as variable" of except and with; falla marks the early return
analizar_as(a0, mensaje) ==
    unico({(
        IF es_valor(token_actual(a), kw_as)
        THEN LET a1 == avanzar(a)
                 t == token_actual(a1)
             IN  IF falta_identificador(t)
                 THEN [a |-> agregar(a1, mensaje, << >>, linea_de(t, 1), columna_de(t, 1)),
                       falla |-> TRUE]
                 ELSE [a |-> avanzar(a1), falla |-> FALSE]
        ELSE [a |-> a, falla |-> FALSE]
    ) : a \in {a0}})

\* AnalizadorSintactico._analizar_except
analizar_except(a0) ==
    unico({(
        LET a1 == avanzar(a)
            t == token_actual(a1)
            r == IF t # Nada /\ t.tipo = "IDENTIFICADOR" /\ t.valor # <<":">>
                 THEN analizar_as(avanzar(a1), "Se esperaba nombre de variable despues de 'as'")
                 ELSE [a |-> a1, falla |-> FALSE]
        IN  IF r.falla
            THEN r.a
            ELSE verificar_dos_puntos(r.a, "Se esperaba ':' despues de 'except'", << >>, 1, 1)
    ) : a \in {a0}})

\* AnalizadorSintactico._analizar_finally
analizar_finally(a0) ==
    unico({(
        verificar_dos_puntos(avanzar(a), "Se esperaba ':' despues de 'finally'", << >>, 1, 1)
    ) : a \in {a0}})

\* AnalizadorSintactico._analizar_with
analizar_with(a0) ==
    unico({(
        LET a1 == avanzar(a)
        IN  IF token_actual(a1) = Nada
            THEN agregar(a1, "Se esperaba expresion despues de 'with'", << >>, 1, 1)
            ELSE LET r == analizar_as(analizar_expresion_simple(a1),
                                      "Se esperaba nombre de variable despues de 'as'")
                 IN  IF r.falla
                     THEN r.a
                     ELSE verificar_dos_puntos(r.a, "Se esperaba ':' despues de 'with'",
                                               << >>, 1, 1)
    ) : a \in {a0}})

\* AnalizadorSintactico._analizar_import
analizar_import(a0) ==
    unico({(
        LET token_import == token_actual(a)
            desde == token_import.valor = kw_from
            a1 == avanzar(a)
            t1 == token_actual(a1)
            a2 == avanzar(a1)
            t2 == token_actual(a2)
        IN  IF desde /\ falta_identificador(t1)
            THEN agregar(a1, "Se esperaba nombre de modulo despues de 'from'", << >>,
                         linea_de(t1, token_import.linea),
                         columna_de(t1, token_import.columna))
            ELSE IF desde /\ falta_valor(t2, kw_import)
            THEN agregar(a2, "Se esperaba 'import' en declaracion from-import", << >>,
                         linea_de(t2, token_import.linea),
                         columna_de(t2, token_import.columna))
            ELSE
            LET b == IF desde THEN avanzar(a2) ELSE a1
                t == token_actual(b)
            IN  IF falta_identificador(t)
                THEN agregar(b, "Se esperaba nombre despues de 'import'", << >>,
                             linea_de(t, token_import.linea),
                             columna_de(t, token_import.columna))
                ELSE
                LET b1 == avanzar(b)
                IN  IF es_valor(token_actual(b1), kw_as)
                    THEN LET b2 == avanzar(b1)
                             u == token_actual(b2)
                         IN  IF falta_identificador(u)
                             THEN agregar(b2, "Se esperaba alias despues de 'as'", << >>,
                                          linea_de(u, token_import.linea),
                                          columna_de(u, token_import.columna))
                             ELSE avanzar(b2)
                    ELSE b1
    ) : a \in {a0}})

\* AnalizadorSintactico._analizar_sentencia_simple
analizar_sentencia_simple(a0) ==
    unico({(
        LET token == token_actual(a)
            a1 == avanzar(a)
            t == token_actual(a1)
        IN  IF token.valor \in sentencias_con_expresion /\ t # Nada /\ t.tipo \notin FinDeLinea
            THEN analizar_expresion_simple(a1)
            ELSE a1
    ) : a \in {a0}})

\* the while loop of _analizar_expresion_o_asignacion; the result says
\* whether it left through the '=' branch
RECURSIVE buscar_asignacion(_)
buscar_asignacion(a0) ==
    unico({(
        LET t == token_actual(a)
        IN  IF t # Nada /\ t.tipo \notin FinDeLinea
            THEN IF t.valor = <<"=">>
                 THEN [a |-> avanzar(a), tiene_asignacion |-> TRUE]
                 ELSE IF avanzar(a).posicion = a.posicion
                 THEN [a |-> a, tiene_asignacion |-> FALSE]
                 ELSE buscar_asignacion(avanzar(a))
            ELSE [a |-> a, tiene_asignacion |-> FALSE]
    ) : a \in {a0}})

\* AnalizadorSintactico._analizar_expresion_o_asignacion
analizar_expresion_o_asignacion(a0) ==
    unico({(
        LET r == buscar_asignacion(a)
            t == token_actual(r.a)
        IN  IF r.tiene_asignacion
            THEN IF t = Nada \/ t.tipo \in FinDeLinea
                 THEN agregar(r.a, "Asignacion incompleta: falta valor despues de '='", << >>,
                              linea_de(t, 1), columna_de(t, 1))
                 ELSE analizar_expresion_simple(r.a)
            ELSE r.a
    ) : a \in {a0}})

\* AnalizadorSintactico._analizar_sentencia
analizar_sentencia(a0) ==
    unico({(
        LET token == token_actual(a)
        IN  IF token = Nada THEN a
            ELSE IF token.tipo = "PALABRA_RESERVADA"
            THEN IF token.valor = kw_def THEN analizar_definicion_funcion(a)
                 ELSE IF token.valor = kw_class THEN analizar_definicion_clase(a)
                 ELSE IF token.valor \in {kw_if, kw_elif} THEN analizar_if(a)
                 ELSE IF token.valor = kw_else THEN analizar_else(a)
                 ELSE IF token.valor = kw_for THEN analizar_for(a)
                 ELSE IF token.valor = kw_while THEN analizar_while(a)
                 ELSE IF token.valor = kw_try THEN analizar_try(a)
                 ELSE IF token.valor = kw_except THEN analizar_except(a)
                 ELSE IF token.valor = kw_finally THEN analizar_finally(a)
                 ELSE IF token.valor = kw_with THEN analizar_with(a)
                 ELSE IF token.valor \in {kw_import, kw_from} THEN analizar_import(a)
                 ELSE IF token.valor \in sentencias THEN analizar_sentencia_simple(a)
                 ELSE avanzar(a)
            ELSE analizar_expresion_o_asignacion(a)
    ) : a \in {a0}})

\* the loop test and break of _analizar_programa
programa_terminado(a) == token_actual(a) = Nada \/ token_actual(a).tipo = "EOF"

\* one pass of the while loop of _analizar_programa
paso_programa(a0) ==
    unico({(
        IF token_actual(a).tipo \in {"NUEVA_LINEA", "INDENTACION", "COMENTARIO"}
        THEN avanzar(a)
        ELSE analizar_sentencia(a)
    ) : a \in {a0}})

\* AnalizadorSintactico._analizar_programa
RECURSIVE analizar_programa(_)
analizar_programa(a) ==
    IF programa_terminado(a) THEN a ELSE analizar_programa(paso_programa(a))

\* AnalizadorSintactico.analizar, called on an analyser nobody else is using
analizar_sintactico(tokens) ==
    IF tokens = << >>
    THEN << >>
    ELSE analizar_programa(Analizador(tokens, 0, << >>)).errores

(***************************************************************************)
(* AnalizadorSemantico.                                                    *)
(***************************************************************************)
built_ins ==
    {<<"a", "b", "s">>, <<"a", "l", "l">>, <<"a", "n", "y">>,
     <<"a", "s", "c", "i", "i">>, <<"b", "i", "n">>, <<"b", "o", "o", "l">>,
     <<"b", "y", "t", "e", "a", "r", "r", "a", "y">>,
     <<"b", "y", "t", "e", "s">>, <<"c", "a", "l", "l", "a", "b", "l", "e">>,
     <<"c", "h", "r">>,
     <<"c", "l", "a", "s", "s", "m", "e", "t", "h", "o", "d">>,
     <<"c", "o", "m", "p", "i", "l", "e">>,
     <<"c", "o", "m", "p", "l", "e", "x">>,
     <<"d", "e", "l", "a", "t", "t", "r">>, <<"d", "i", "c", "t">>,
     <<"d", "i", "r">>, <<"d", "i", "v", "m", "o", "d">>,
     <<"e", "n", "u", "m", "e", "r", "a", "t", "e">>, <<"e", "v", "a", "l">>,
     <<"e", "x", "e", "c">>, <<"f", "i", "l", "t", "e", "r">>,
     <<"f", "l", "o", "a", "t">>, <<"f", "o", "r", "m", "a", "t">>,
     <<"f", "r", "o", "z", "e", "n", "s", "e", "t">>,
     <<"g", "e", "t", "a", "t", "t", "r">>,
     <<"g", "l", "o", "b", "a", "l", "s">>,
     <<"h", "a", "s", "a", "t", "t", "r">>, <<"h", "a", "s", "h">>,
     <<"h", "e", "l", "p">>, <<"h", "e", "x">>, <<"i", "d">>,
     <<"i", "n", "p", "u", "t">>, <<"i", "n", "t">>,
     <<"i", "s", "i", "n", "s", "t", "a", "n", "c", "e">>,
     <<"i", "s", "s", "u", "b", "c", "l", "a", "s", "s">>,
     <<"i", "t", "e", "r">>, <<"l", "e", "n">>, <<"l", "i", "s", "t">>,
     <<"l", "o", "c", "a", "l", "s">>, <<"m", "a", "p">>, <<"m", "a", "x">>,
     <<"m", "e", "m", "o", "r", "y", "v", "i", "e", "w">>, <<"m", "i", "n">>,
     <<"n", "e", "x", "t">>, <<"o", "b", "j", "e", "c", "t">>, <<"o", "c", "t">>,
     <<"o", "p", "e", "n">>, <<"o", "r", "d">>, <<"p", "o", "w">>,
     <<"p", "r", "i", "n", "t">>, <<"p", "r", "o", "p", "e", "r", "t", "y">>,
     <<"r", "a", "n", "g", "e">>, <<"r", "e", "p", "r">>,
     <<"r", "e", "v", "e", "r", "s", "e", "d">>, <<"r", "o", "u", "n", "d">>,
     <<"s", "e", "t">>, <<"s", "e", "t", "a", "t", "t", "r">>,
     <<"s", "l", "i", "c", "e">>, <<"s", "o", "r", "t", "e", "d">>,
     <<"s", "t", "a", "t", "i", "c", "m", "e", "t", "h", "o", "d">>,
     <<"s", "t", "r">>, <<"s", "u", "m">>, <<"s", "u", "p", "e", "r">>,
     <<"t", "u", "p", "l", "e">>, <<"t", "y", "p", "e">>, <<"v", "a", "r", "s">>,
     <<"z", "i", "p">>, <<"T", "r", "u", "e">>, <<"F", "a", "l", "s", "e">>,
     <<"N", "o", "n", "e">>,
     <<"N", "o", "t", "I", "m", "p", "l", "e", "m", "e", "n", "t", "e", "d">>,
     <<"E", "l", "l", "i", "p", "s", "i", "s">>,
     <<"E", "x", "c", "e", "p", "t", "i", "o", "n">>,
     <<"V", "a", "l", "u", "e", "E", "r", "r", "o", "r">>,
     <<"T", "y", "p", "e", "E", "r", "r", "o", "r">>,
     <<"A", "t", "t", "r", "i", "b", "u", "t", "e", "E", "r", "r", "o", "r">>,
     <<"K", "e", "y", "E", "r", "r", "o", "r">>,
     <<"I", "n", "d", "e", "x", "E", "r", "r", "o", "r">>,
     <<"N", "a", "m", "e", "E", "r", "r", "o", "r">>,
     <<"S", "y", "n", "t", "a", "x", "E", "r", "r", "o", "r">>,
     <<"R", "u", "n", "t", "i", "m", "e", "E", "r", "r", "o", "r">>}

variables_especiales ==
    {<<"_", "_", "n", "a", "m", "e", "_", "_">>,
     <<"_", "_", "m", "a", "i", "n", "_", "_">>,
     <<"_", "_", "f", "i", "l", "e", "_", "_">>,
     <<"_", "_", "d", "o", "c", "_", "_">>,
     <<"_", "_", "d", "i", "c", "t", "_", "_">>,
     <<"_", "_", "c", "l", "a", "s", "s", "_", "_">>,
     <<"_", "_", "b", "a", "s", "e", "s", "_", "_">>,
     <<"_", "_", "m", "o", "d", "u", "l", "e", "_", "_">>,
     <<"_", "_", "v", "e", "r", "s", "i", "o", "n", "_", "_">>}

\* the empty dictionary of sets of _recopilar_definiciones
definiciones_vacias ==
    [funciones |-> {}, clases |-> {}, variables |-> {}, imports |-> {}, parametros |-> {}]

es_identificador(tokens, i) == i < Len(tokens) /\ tokens[i + 1].tipo = "IDENTIFICADOR"

\* "i < len(tokens) and tokens[i].valor == v"
tiene_valor(tokens, i, v) == i < Len(tokens) /\ tokens[i + 1].valor = v

Recopilado(i, definiciones) == [i |-> i, definiciones |-> definiciones]

\* the parameter scan of a def: while j < len(tokens) and tokens[j].valor != ')'
RECURSIVE recopilar_parametros(_, _, _)
recopilar_parametros(tokens, j, d) ==
    IF j < Len(tokens) /\ tokens[j + 1].valor # <<")">>
    THEN recopilar_parametros(
             tokens, j + 1,
             IF tokens[j + 1].tipo = "IDENTIFICADOR"
             THEN [d EXCEPT !.parametros = @ \cup {tokens[j + 1].valor},
                            !.variables = @ \cup {tokens[j + 1].valor}]
             ELSE d)
    ELSE Recopilado(j, d)

\* the name scan of an import: while j < len(tokens) and tokens[j] is an identifier
RECURSIVE recopilar_imports(_, _, _)
recopilar_imports(tokens, j, d) ==
    IF es_identificador(tokens, j)
    THEN recopilar_imports(
             tokens,
             IF tiene_valor(tokens, j + 1, <<",">>) THEN j + 2 ELSE j + 1,
             [d EXCEPT !.imports = @ \cup {tokens[j + 1].valor}])
    ELSE Recopilado(j, d)

\* "while j < len(tokens) and tokens[j].valor != 'import': j += 1"
RECURSIVE buscar_import(_, _)
buscar_import(tokens, j) ==
    IF j < Len(tokens) /\ tokens[j + 1].valor # kw_import
    THEN buscar_import(tokens, j + 1)
    ELSE j

\* "i += 1": the step of the pass over a token that defines nothing
siguiente_token(i) == i + 1

\* one pass of the while loop of _recopilar_definiciones with the cursor at i
paso_recopilar(tokens, i, d) ==
    LET token == tokens[i + 1]
        asignacion ==
            IF token.tipo = "IDENTIFICADOR" /\ tiene_valor(tokens, i + 1, <<"=">>)
            THEN Recopilado(i + 2, [d EXCEPT !.variables = @ \cup {token.valor}])
            ELSE Recopilado(siguiente_token(i), d)
    IN  IF token.tipo = "PALABRA_RESERVADA"
        THEN IF token.valor = kw_def
             THEN IF es_identificador(tokens, i + 1)
                  THEN LET d1 == [d EXCEPT !.funciones = @ \cup {tokens[i + 2].valor}]
                       IN  IF tiene_valor(tokens, i + 2, <<"(">>)
                           THEN recopilar_parametros(tokens, i + 3, d1)
                           ELSE Recopilado(i + 2, d1)
                  ELSE asignacion
             ELSE IF token.valor = kw_class
             THEN IF es_identificador(tokens, i + 1)
                  THEN Recopilado(i + 2, [d EXCEPT !.clases = @ \cup {tokens[i + 2].valor}])
                  ELSE asignacion
             ELSE IF token.valor = kw_from
             THEN recopilar_imports(tokens, buscar_import(tokens, i + 1) + 1, d)
             ELSE IF token.valor = kw_import
             THEN recopilar_imports(tokens, i + 1, d)
             ELSE IF token.valor = kw_for
             THEN IF es_identificador(tokens, i + 1)
                  THEN Recopilado(i + 2, [d EXCEPT !.variables = @ \cup {tokens[i + 2].valor}])
                  ELSE asignacion
             ELSE asignacion
        ELSE asignacion

\* AnalizadorSemantico._recopilar_definiciones
RECURSIVE recopilar_desde(_, _, _)
recopilar_desde(tokens, i, d) ==
    IF i < Len(tokens)
    THEN LET r == paso_recopilar(tokens, i, d)
         IN  recopilar_desde(tokens, r.i, r.definiciones)
    ELSE d

recopilar_definiciones(tokens) == recopilar_desde(tokens, 0, definiciones_vacias)

asignaciones ==
    {<<"=">>, <<"+", "=">>, <<"-", "=">>, <<"*", "=">>, <<"/", "=">>,
     <<"/", "/", "=">>, <<"%", "=">>, <<"*", "*", "=">>}

es_palabra(tokens, j, palabra) ==
    /\ j < Len(tokens)
    /\ tokens[j + 1].tipo = "PALABRA_RESERVADA"
    /\ tokens[j + 1].valor = palabra

\* range(a, b) of Python
Rango(a, b) == a..(b - 1)

Menor(a, b) == IF a <= b THEN a ELSE b

\* AnalizadorSemantico._es_contexto_definicion
es_contexto_definicion(tokens, posicion) ==
    LET n == Len(tokens)
        directa == posicion + 1 < n /\ tokens[posicion + 2].valor \in asignaciones
        en_for ==
            \E j \in Rango(Maximo(0, posicion - 3), posicion) :
                /\ es_palabra(tokens, j, kw_for)
                /\ LET ks == {k \in Rango(j + 1, Menor(n, posicion + 3)) :
                                 tokens[k + 1].valor = kw_in}
                   IN  ks # {} /\ posicion < Minimo(ks)
        defs == {j \in Rango(Maximo(0, posicion - 10), posicion) :
                    es_palabra(tokens, j, kw_def)}
        en_def ==
            /\ defs # {}
            /\ LET j == Minimo(defs)
                   ks == {k \in Rango(j + 1, Menor(n, posicion + 5)) :
                             tokens[k + 1].valor = <<"(">>}
               IN  /\ ks # {}
                   /\ LET k == Minimo(ks)
                          ls == {l \in Rango(k + 1, n) : tokens[l + 1].valor = <<")">>}
                      IN  ls # {} /\ k < posicion /\ posicion < Minimo(ls)
        en_except ==
            \E j \in Rango(Maximo(0, posicion - 5), posicion) :
                /\ es_palabra(tokens, j, kw_except)
                /\ LET ks == {k \in Rango(j + 1, Menor(n, posicion + 2)) :
                                 tokens[k + 1].valor = kw_as}
                   IN  ks # {} /\ posicion = Minimo(ks) + 1
    IN  directa \/ en_for \/ en_def \/ en_except

\* nombre.startswith('_')
empieza_con_guion(nombre) == nombre # << >> /\ nombre[1] = "_"

\* AnalizadorSemantico._esta_definida_variable
esta_definida_variable(nombre, d) ==
    \/ nombre \in d.variables
    \/ nombre \in d.parametros
    \/ nombre \in d.imports
    \/ nombre \in d.clases
    \/ nombre \in built_ins
    \/ nombre \in variables_especiales
    \/ empieza_con_guion(nombre)

\* a function lookup that also accepts the names of variables and parameters
recopilada_en_cualquiera(nombre, d) ==
    \/ nombre \in d.funciones
    \/ nombre \in d.imports
    \/ nombre \in d.clases
    \/ nombre \in d.variables
    \/ nombre \in d.parametros
    \/ nombre \in built_ins
    \/ empieza_con_guion(nombre)

\* a function lookup that consults the collected definitions alone
solo_recopilada(nombre, d) ==
    \/ nombre \in d.funciones
    \/ nombre \in d.imports
    \/ nombre \in d.clases

\* AnalizadorSemantico._esta_definida_funcion
esta_definida_funcion(nombre, d) ==
    \/ nombre \in d.funciones
    \/ nombre \in d.imports
    \/ nombre \in d.clases
    \/ nombre \in built_ins
    \/ empieza_con_guion(nombre)

\* "i + 1 < len(tokens) and tokens[i + 1].valor == '('"
seguido_de_parentesis(tokens, i) == tiene_valor(tokens, i + 1, <<"(">>)

\* "i > 0 and tokens[i - 1].valor == '.'"
precedido_de_punto(tokens, i) == i > 0 /\ tokens[i].valor = <<".">>

\* a collection that keeps one diagnostic per name
RECURSIVE errores_sin_repetir(_, _)
errores_sin_repetir(hallazgos, n) ==
    IF n = 0 THEN << >>
    ELSE LET antes == errores_sin_repetir(hallazgos, n - 1)
         IN  antes \o SelectSeq(hallazgos[n - 1],
                                LAMBDA e : \A k \in 1..Len(antes) : antes[k].dato # e.dato)

\* the errors a for loop over enumerate(tokens) collects, in token order;
\* hallazgos[i] holds what the loop body appends for token i
RECURSIVE errores_de(_, _)
errores_de(hallazgos, n) ==
    IF n = 0 THEN << >> ELSE errores_de(hallazgos, n - 1) \o hallazgos[n - 1]

ErrorSemantico(tipo, mensaje, token) ==
    <<Error(tipo, mensaje, token.valor, token.linea, token.columna)>>

\* the body of the loop of _analizar_uso_variables for token i
uso_variable(tokens, i, d) ==
    IF /\ tokens[i + 1].tipo = "IDENTIFICADOR"
       /\ ~es_contexto_definicion(tokens, i)
       /\ ~esta_definida_variable(tokens[i + 1].valor, d)
       /\ ~seguido_de_parentesis(tokens, i)
       /\ ~precedido_de_punto(tokens, i)
    THEN ErrorSemantico("SEMANTICO", "Variable utilizada sin definir", tokens[i + 1])
    ELSE << >>

\* the body of the loop of _analizar_uso_funciones for token i
uso_funcion(tokens, i, d) ==
    IF /\ tokens[i + 1].tipo = "IDENTIFICADOR"
       /\ seguido_de_parentesis(tokens, i)
       /\ ~esta_definida_funcion(tokens[i + 1].valor, d)
       /\ ~precedido_de_punto(tokens, i)
    THEN ErrorSemantico("SEMANTICO", "Funcion no esta definida", tokens[i + 1])
    ELSE << >>

\* a depth walk that does not count the closing parentheses
RECURSIVE nivel_sin_cierres(_, _, _)
nivel_sin_cierres(tokens, j, nivel_parentesis) ==
    IF j < Len(tokens) /\ nivel_parentesis > 0
    THEN nivel_sin_cierres(tokens, j + 1,
                           IF tokens[j + 1].valor = <<"(">> THEN nivel_parentesis + 1
                           ELSE nivel_parentesis)
    ELSE nivel_parentesis

\* the depth walk of _analizar_llamadas_funciones: the final nivel_parentesis
RECURSIVE nivel_final(_, _, _)
nivel_final(tokens, j, nivel_parentesis) ==
    IF j < Len(tokens) /\ nivel_parentesis > 0
    THEN nivel_final(tokens, j + 1,
                     IF tokens[j + 1].valor = <<"(">> THEN nivel_parentesis + 1
                     ELSE IF tokens[j + 1].valor = <<")">> THEN nivel_parentesis - 1
                     ELSE nivel_parentesis)
    ELSE nivel_parentesis

\* the body of the loop of _analizar_llamadas_funciones for token i
llamada_funcion(tokens, i) ==
    IF /\ tokens[i + 1].tipo = "IDENTIFICADOR"
       /\ seguido_de_parentesis(tokens, i)
       /\ nivel_final(tokens, i + 2, 1) > 0
    THEN ErrorSemantico("SINTACTICO", "Parentesis sin cerrar en llamada a funcion",
                        tokens[i + 1])
    ELSE << >>

\* AnalizadorSemantico._analizar_uso_variables
analizar_uso_variables(tokens, d) ==
    errores_de([i \in Rango(0, Len(tokens)) |-> uso_variable(tokens, i, d)], Len(tokens))

\* AnalizadorSemantico._analizar_uso_funciones
analizar_uso_funciones(tokens, d) ==
    errores_de([i \in Rango(0, Len(tokens)) |-> uso_funcion(tokens, i, d)], Len(tokens))

\* AnalizadorSemantico._analizar_llamadas_funciones
analizar_llamadas_funciones(tokens) ==
    errores_de([i \in Rango(0, Len(tokens)) |-> llamada_funcion(tokens, i)], Len(tokens))

\* the second pass of AnalizadorSemantico.analizar
segunda_pasada(tokens, d) ==
    analizar_uso_variables(tokens, d)
        \o analizar_uso_funciones(tokens, d)
        \o analizar_llamadas_funciones(tokens)

\* AnalizadorSemantico.analizar
analizar_semantico(tokens) == segunda_pasada(tokens, recopilar_definiciones(tokens))

(***************************************************************************)
(* CompiladorPython.  One CompiladorPython object is shared by every call  *)
(* of compilar; InterfazModerna.compilar_codigo starts one thread per      *)
(* call.  Hilos are the calls.                                             *)
(***************************************************************************)
\* bound: the number of calls of compilar made on the one object
NHilos == 2

Hilos == 1..NHilos

\* the argument of compilar: a str, or a value that is no str
Texto(s) == [tipo |-> "str", valor |-> s]

NoTexto == [tipo |-> "NoneType", valor |-> << >>]

VARIABLES
    codigo,      \* codigo[h]: the argument of call h
    pc,          \* pc[h]: "inactivo", "lexico", "sintactico", "semantico", "fin"
    lexico,      \* lexico[h]: the locals of tokenizar and _tokenizar_linea in call h
    local,       \* local[h]: the locals of compilar in call h
    sintactico,  \* the fields of the one AnalizadorSintactico: tokens, posicion,
                 \* errores (a reference into listas)
    listas,      \* the error lists analizar has created; listas[h] is the one
                 \* created in call h, listas[0] an empty list nobody appends to
    semantico,   \* semantico[h]: the locals of _recopilar_definiciones in call h
    resultado    \* resultado[h]: the dictionary compilar returned to call h

vars == <<codigo, pc, lexico, local, sintactico, listas, semantico, resultado>>

\* the content of the list a reference names
Lista(ref) == listas[ref]

lexico_inicial ==
    [lineas |-> << >>, num_linea |-> 1, en_linea |-> FALSE, contenido |-> << >>,
     i |-> 0, tokens |-> << >>, errores |-> << >>]

local_inicial ==
    [tokens |-> << >>, errores_lexicos |-> << >>, errores_sintacticos |-> 0,
     errores_semanticos |-> << >>]

semantico_inicial == [i |-> 0, definiciones |-> definiciones_vacias]

\* the state after CompiladorPython() with the calls still to be made
InitCon(entradas) ==
    /\ codigo \in entradas
    /\ pc = [h \in Hilos |-> "inactivo"]
    /\ lexico = [h \in Hilos |-> lexico_inicial]
    /\ local = [h \in Hilos |-> local_inicial]
    /\ sintactico = [tokens |-> << >>, posicion |-> 0, errores |-> 0]
    /\ listas = [r \in 0..NHilos |-> << >>]
    /\ semantico = [h \in Hilos |-> semantico_inicial]
    /\ resultado = [h \in Hilos |-> Nada]

\* a result that hands back the tokens the validator's cursor has not passed
resultado_de_restantes(tokens, errores_lexicos, ref, errores_semanticos) ==
    LET total == Len(errores_lexicos) + Len(Lista(ref)) + Len(errores_semanticos)
    IN  [tokens |-> SubSeq(tokens, sintactico.posicion + 1, Len(tokens)),
         errores_lexicos |-> errores_lexicos,
         errores_sintacticos |-> ref,
         errores_semanticos |-> errores_semanticos,
         total_errores |-> total,
         exito |-> total = 0]

\* the dictionary of lines 1330-1337; errores_sintacticos is a reference
Resultado(tokens, errores_lexicos, ref, errores_semanticos) ==
    LET total == Len(errores_lexicos) + Len(Lista(ref)) + Len(errores_semanticos)
    IN  [tokens |-> tokens,
         errores_lexicos |-> errores_lexicos,
         errores_sintacticos |-> ref,
         errores_semanticos |-> errores_semanticos,
         total_errores |-> total,
         exito |-> total = 0]

\* an except branch that swallows the fault and reports nothing
resultado_sin_diagnostico ==
    [tokens |-> << >>,
     errores_lexicos |-> << >>,
     errores_sintacticos |-> 0,
     errores_semanticos |-> << >>,
     total_errores |-> 0,
     exito |-> TRUE]

\* the dictionary of the except branch, lines 1339-1346
resultado_de_fallo ==
    [tokens |-> << >>,
     errores_lexicos |-> <<Error("LEXICO", "Error critico", << >>, 1, 1)>>,
     errores_sintacticos |-> 0,
     errores_semanticos |-> << >>,
     total_errores |-> 1,
     exito |-> FALSE]

\* "if not errores_lexicos"
compuerta_sintactica(errores_lexicos) == errores_lexicos = << >>

\* the second gate testing the lexical list only
compuerta_solo_lexica(errores_lexicos, errores_sintacticos) == errores_lexicos = << >>

\* "if not errores_lexicos and not errores_sintacticos"
compuerta_semantica(errores_lexicos, errores_sintacticos) ==
    errores_lexicos = << >> /\ errores_sintacticos = << >>

\* analizar keeping the cursor of the previous call
entrar_sin_reiniciar(s, tokens, ref) ==
    [tokens |-> tokens, posicion |-> s.posicion, errores |-> ref]

\* lines 404-406 of AnalizadorSintactico.analizar; ref names the new list
entrar_analizar(s, tokens, ref) ==
    [tokens |-> tokens, posicion |-> 0, errores |-> ref]

\* compilar's try block up to the first lines of tokenizar; a codigo that is
\* no str has no split and the fault lands in the except branch.  Calls do
\* not overlap: h starts when the calls before it have returned.
Comenzar(h) ==
    /\ pc[h] = "inactivo"
    /\ IF codigo[h].tipo = "str"
       THEN /\ lexico' = [lexico EXCEPT ![h] =
                             [lexico_inicial EXCEPT !.lineas = split(codigo[h].valor)]]
            /\ pc' = [pc EXCEPT ![h] = "lexico"]
            /\ UNCHANGED resultado
       ELSE /\ resultado' = [resultado EXCEPT ![h] = resultado_de_fallo]
            /\ pc' = [pc EXCEPT ![h] = "fin"]
            /\ UNCHANGED lexico
    /\ UNCHANGED <<codigo, local, sintactico, listas, semantico>>

Iniciar(h) ==
    /\ \A g \in Hilos : g < h => pc[g] = "fin"
    /\ Comenzar(h)

\* the same call started while other calls are still running
IniciarConcurrente(h) == Comenzar(h)

\* the for loop of tokenizar reaches a line: _tokenizar_linea up to its loop
LineaInicio(h) ==
    /\ pc[h] = "lexico"
    /\ ~lexico[h].en_linea
    /\ lexico[h].num_linea <= Len(lexico[h].lineas)
    /\ \E lx \in {lexico[h]} :
       \E ini \in {inicio_linea(lx.lineas[lx.num_linea], lx.num_linea)} :
           lexico' = [lexico EXCEPT ![h] =
               IF ini.blanca
               THEN [lx EXCEPT !.num_linea = @ + 1]
               ELSE [lx EXCEPT !.en_linea = TRUE,
                               !.contenido = ini.contenido,
                               !.i = 0,
                               !.tokens = @ \o ini.tokens,
                               !.errores = @ \o ini.errores]]
    /\ UNCHANGED <<codigo, pc, local, sintactico, listas, semantico, resultado>>

\* one pass of the while loop of _tokenizar_linea; when the loop ends the
\* line's tokens and errors are in the lists and the for loop moves on
LineaIterar(h) ==
    /\ pc[h] = "lexico"
    /\ lexico[h].en_linea
    /\ \E lx \in {lexico[h]} :
       \E r \in {iterar_linea(lx.contenido, lx.i, lx.num_linea)} :
       \E sale \in {r.corte \/ r.i >= Len(lx.contenido)} :
           lexico' = [lexico EXCEPT ![h] =
               [lx EXCEPT !.i = r.i,
                          !.tokens = @ \o r.tokens,
                          !.errores = @ \o r.errores,
                          !.en_linea = ~sale,
                          !.num_linea = IF sale THEN @ + 1 ELSE @]]
    /\ UNCHANGED <<codigo, pc, local, sintactico, listas, semantico, resultado>>

\* tokenizar returns; compilar passes the first gate and either enters
\* AnalizadorSintactico.analizar or, with lexical errors, returns its result
LexicoFin(h) ==
    /\ pc[h] = "lexico"
    /\ ~lexico[h].en_linea
    /\ lexico[h].num_linea > Len(lexico[h].lineas)
    /\ LET tokens == lexico[h].tokens
           errores_lexicos == lexico[h].errores
       IN  IF compuerta_sintactica(errores_lexicos)
           THEN /\ local' = [local EXCEPT ![h] =
                        [local_inicial EXCEPT !.tokens = tokens,
                                              !.errores_lexicos = errores_lexicos]]
                /\ sintactico' = entrar_analizar(sintactico, tokens, h)
                /\ listas' = [listas EXCEPT ![h] = << >>]
                /\ pc' = [pc EXCEPT ![h] = "sintactico"]
                /\ UNCHANGED resultado
           ELSE /\ local' = [local EXCEPT ![h] =
                        [local_inicial EXCEPT !.tokens = tokens,
                                              !.errores_lexicos = errores_lexicos]]
                /\ resultado' = [resultado EXCEPT ![h] =
                        Resultado(tokens, errores_lexicos, 0, << >>)]
                /\ pc' = [pc EXCEPT ![h] = "fin"]
                /\ UNCHANGED <<sintactico, listas>>
    /\ UNCHANGED <<codigo, lexico, semantico>>

\* the analyser object as the handlers see it
analizador_actual == Analizador(sintactico.tokens, sintactico.posicion,
                                Lista(sintactico.errores))

\* "if not tokens: return self.errores", or the loop of _analizar_programa ended
analisis_terminado(h) == local[h].tokens = << >> \/ programa_terminado(analizador_actual)

\* one pass of the while loop of _analizar_programa on the shared object
SintacticoPaso(h) ==
    /\ pc[h] = "sintactico"
    /\ ~analisis_terminado(h)
    /\ \E a \in {paso_programa(analizador_actual)} :
           /\ sintactico' = [sintactico EXCEPT !.posicion = a.posicion]
           /\ listas' = [listas EXCEPT ![sintactico.errores] = a.errores]
    /\ UNCHANGED <<codigo, pc, lexico, local, semantico, resultado>>

\* analizar returns self.errores; compilar passes the second gate and either
\* enters AnalizadorSemantico.analizar or returns its result
SintacticoFin(h) ==
    /\ pc[h] = "sintactico"
    /\ analisis_terminado(h)
    /\ LET ref == sintactico.errores
       IN  /\ local' = [local EXCEPT ![h].errores_sintacticos = ref]
           /\ IF compuerta_semantica(local[h].errores_lexicos, Lista(ref))
              THEN /\ semantico' = [semantico EXCEPT ![h] = semantico_inicial]
                   /\ pc' = [pc EXCEPT ![h] = "semantico"]
                   /\ UNCHANGED resultado
              ELSE /\ resultado' = [resultado EXCEPT ![h] =
                           Resultado(local[h].tokens, local[h].errores_lexicos,
                                     ref, << >>)]
                   /\ pc' = [pc EXCEPT ![h] = "fin"]
                   /\ UNCHANGED semantico
    /\ UNCHANGED <<codigo, lexico, sintactico, listas>>

\* one pass of the while loop of _recopilar_definiciones
SemanticoRecopilar(h) ==
    /\ pc[h] = "semantico"
    /\ semantico[h].i < Len(local[h].tokens)
    /\ \E r \in {paso_recopilar(local[h].tokens, semantico[h].i,
                                  semantico[h].definiciones)} :
           semantico' = [semantico EXCEPT ![h] =
                            [i |-> r.i, definiciones |-> r.definiciones]]
    /\ UNCHANGED <<codigo, pc, lexico, local, sintactico, listas, resultado>>

\* the second pass of AnalizadorSemantico.analizar, then compilar's return
SemanticoFin(h) ==
    /\ pc[h] = "semantico"
    /\ semantico[h].i >= Len(local[h].tokens)
    /\ \E errores_semanticos \in
               {segunda_pasada(local[h].tokens, semantico[h].definiciones)} :
           /\ local' = [local EXCEPT ![h].errores_semanticos = errores_semanticos]
           /\ resultado' = [resultado EXCEPT ![h] =
                   Resultado(local[h].tokens, local[h].errores_lexicos,
                             local[h].errores_sintacticos, errores_semanticos)]
    /\ pc' = [pc EXCEPT ![h] = "fin"]
    /\ UNCHANGED <<codigo, lexico, sintactico, listas, semantico>>

\* the steps of a call once it has started
Avanzar(h) ==
    \/ LineaInicio(h)
    \/ LineaIterar(h)
    \/ LexicoFin(h)
    \/ SintacticoPaso(h)
    \/ SintacticoFin(h)
    \/ SemanticoRecopilar(h)
    \/ SemanticoFin(h)

Next == \E h \in Hilos : Iniciar(h) \/ Avanzar(h)

NextConcurrente == \E h \in Hilos : IniciarConcurrente(h) \/ Avanzar(h)

(***************************************************************************)
(* AnalizadorSintactico.analizar called by a client on a list of its own.  *)
(* An element of the list that is no Token has none of the attributes the  *)
(* walk reads: the read raises AttributeError inside the try block.        *)
(***************************************************************************)
\* the argument of analizar: a list
ListaDeTokens(tokens) == [tipo |-> "list", valor |-> tokens]

\* an element that is no Token (a str) and so has no tipo, valor or linea
Defecto == [clase |-> "str"]

es_token(elemento) == "tipo" \in DOMAIN elemento

\* where the walk stands when the pass of _analizar_programa at a reads an
\* attribute of an element that is no Token, or Nada when no read raises:
\* "self._token_actual().tipo" at the head of the loop (line 443), and
\* "token_nombre.tipo" after _analizar_definicion_funcion has consumed the
\* def (lines 484-487)
lectura_fallida(a0) ==
    unico({(
        LET token == token_actual(a)
        IN  IF token = Nada THEN Nada
            ELSE IF ~es_token(token)
            THEN [tipo |-> "AttributeError", posicion |-> a.posicion,
                  atributo |-> <<"t", "i", "p", "o">>]
            ELSE IF /\ token.tipo = "PALABRA_RESERVADA"
                    /\ token.valor = kw_def
                    /\ a.posicion + 1 < Len(a.tokens)
                    /\ ~es_token(a.tokens[a.posicion + 2])
            THEN [tipo |-> "AttributeError", posicion |-> a.posicion + 1,
                  atributo |-> <<"t", "i", "p", "o">>]
            ELSE Nada
    ) : a \in {a0}})

\* an except clause that swallows the fault and reports nothing
descartar_falla(errores, atributo) == errores

\* the except clause of analizar, lines 413-419; dato is the attribute the
\* message of the exception names
registrar_falla(errores, atributo) ==
    Append(errores, Error("SINTACTICO", "Error critico en analisis sintactico",
                          atributo, 1, 1))

\* "return self.errores": the caller gets the list of the object
Retornado(ref) == [errores |-> ref]

\* lines 404-409 of analizar; calls are made one after another
AnalizarEntrar(h) ==
    /\ \A g \in Hilos : g < h => pc[g] = "fin"
    /\ pc[h] = "inactivo"
    /\ codigo[h].tipo = "list"
    /\ sintactico' = entrar_analizar(sintactico, codigo[h].valor, h)
    /\ listas' = [listas EXCEPT ![h] = << >>]
    /\ IF codigo[h].valor = << >>
       THEN /\ pc' = [pc EXCEPT ![h] = "fin"]
            /\ resultado' = [resultado EXCEPT ![h] = Retornado(h)]
       ELSE /\ pc' = [pc EXCEPT ![h] = "analizar"]
            /\ UNCHANGED resultado
    /\ UNCHANGED <<codigo, lexico, local, semantico>>

\* one pass of the while loop of _analizar_programa in which no read raises
AnalizarPaso(h) ==
    /\ pc[h] = "analizar"
    /\ token_actual(analizador_actual) # Nada
    /\ lectura_fallida(analizador_actual) = Nada
    /\ token_actual(analizador_actual).tipo # "EOF"
    /\ \E a \in {paso_programa(analizador_actual)} :
           /\ sintactico' = [sintactico EXCEPT !.posicion = a.posicion]
           /\ listas' = [listas EXCEPT ![sintactico.errores] = a.errores]
    /\ UNCHANGED <<codigo, pc, lexico, local, semantico, resultado>>

\* a read raises: the except clause appends its diagnostic and analizar
\* returns the list
AnalizarFalla(h) ==
    /\ pc[h] = "analizar"
    /\ \E falla \in {lectura_fallida(analizador_actual)} :
           /\ falla # Nada
           /\ sintactico' = [sintactico EXCEPT !.posicion = falla.posicion]
           /\ listas' = [listas EXCEPT ![sintactico.errores] =
                             registrar_falla(@, falla.atributo)]
    /\ pc' = [pc EXCEPT ![h] = "fin"]
    /\ resultado' = [resultado EXCEPT ![h] = Retornado(sintactico.errores)]
    /\ UNCHANGED <<codigo, lexico, local, semantico>>

\* the loop of _analizar_programa ends: no element is left, or the element
\* is an EOF token (line 443); analizar returns the list
AnalizarFin(h) ==
    /\ pc[h] = "analizar"
    /\ \/ token_actual(analizador_actual) = Nada
       \/ /\ es_token(token_actual(analizador_actual))
          /\ token_actual(analizador_actual).tipo = "EOF"
    /\ pc' = [pc EXCEPT ![h] = "fin"]
    /\ resultado' = [resultado EXCEPT ![h] = Retornado(sintactico.errores)]
    /\ UNCHANGED <<codigo, lexico, local, sintactico, listas, semantico>>

NextAnalizar ==
    \E h \in Hilos :
        AnalizarEntrar(h) \/ AnalizarPaso(h) \/ AnalizarFalla(h) \/ AnalizarFin(h)

\* the result of call h as its caller reads it now
Vista(h) == [resultado[h] EXCEPT !.errores_sintacticos = Lista(@)]

\* CompiladorPython.compilar run alone on a fresh object, start to return
compilar(c) ==
    IF c.tipo # "str"
    THEN [resultado_de_fallo EXCEPT !.errores_sintacticos = << >>]
    ELSE LET lx == tokenizar(c.valor)
             errores_sintacticos ==
                 IF compuerta_sintactica(lx.errores)
                 THEN analizar_sintactico(lx.tokens) ELSE << >>
             errores_semanticos ==
                 IF compuerta_semantica(lx.errores, errores_sintacticos)
                 THEN analizar_semantico(lx.tokens) ELSE << >>
             total == Len(lx.errores) + Len(errores_sintacticos) + Len(errores_semanticos)
         IN  [tokens |-> lx.tokens,
              errores_lexicos |-> lx.errores,
              errores_sintacticos |-> errores_sintacticos,
              errores_semanticos |-> errores_semanticos,
              total_errores |-> total,
              exito |-> total = 0]

(***************************************************************************)
(* The inputs.                                                             *)
(***************************************************************************)
\* ''.join(partes)
RECURSIVE Unir(_)
Unir(partes) == IF partes = << >> THEN << >> ELSE Head(partes) \o Unir(Tail(partes))

\* '\n'.join(lineas)
RECURSIVE UnirLineas(_)
UnirLineas(lineas) ==
    IF lineas = << >> THEN << >>
    ELSE IF Len(lineas) = 1 THEN Head(lineas)
    ELSE Head(lineas) \o <<"\n">> \o UnirLineas(Tail(lineas))

\* every sequence over A of length at most n
RECURSIVE Cadenas(_, _)
Cadenas(A, n) ==
    IF n = 0
    THEN {<< >>}
    ELSE LET C == Cadenas(A, n - 1)
         IN  C \cup {Append(s, c) : s \in {t \in C : Len(t) = n - 1}, c \in A}

\* bound: the length of the texts drawn character by character
MaxLargo == 4

\* bound: the number of lines of the programs drawn line by line
MaxLineas == 2

\* bound: the number of parameters of the def headers drawn
MaxParametros == 2

\* bound: the width of the indentations drawn
MaxSangria == 5

\* bound: the number of characters drawn after a base prefix
MaxSufijo == 2

\* bound: the number of digits of the integers drawn
MaxDigitos == 2

\* the alphabets of the texts drawn character by character
AlfabetoAsignacion == {"x", "1", "_", " ", "=", "\n"}

AlfabetoLiteral == {"\"", "x", " ", "#", "$", "."}

TextosLibres == Cadenas(AlfabetoAsignacion, MaxLargo) \cup Cadenas(AlfabetoLiteral, MaxLargo)

\* NAME = DIGITS, with or without blanks around '=' and a trailing line feed
Nombres == {<<"x">>, <<"_">>, <<"i", "f", "_">>, <<"e", "1">>}

Enteros == Cadenas({"0", "1", "9"}, MaxDigitos) \ {<< >>}

Blancos == {<< >>, <<" ">>}

Finales == {<< >>, <<"\n">>}

FormaAsignacion(nombre, b1, b2, entero, final) ==
    Unir(<<nombre, b1, <<"=">>, b2, entero, final>>)

TextosAsignacion ==
    {FormaAsignacion(nombre, b1, b2, entero, final) :
        nombre \in Nombres, b1 \in Blancos, b2 \in Blancos,
        entero \in Enteros, final \in Finales}

\* a base prefix after an optional "y = ", followed by a drawn suffix
MarcasDeBase == {"b", "B", "o", "O", "x", "X"}

Antes == {<< >>, <<"y", " ", "=", " ">>}

Sufijos == Cadenas({"_", "1", "9", "g", " "}, MaxSufijo)

FormaPrefijo(antes, marca, sufijo) == Unir(<<antes, <<"0", marca>>, sufijo>>)

TextosPrefijo ==
    {FormaPrefijo(antes, marca, sufijo) :
        antes \in Antes, marca \in MarcasDeBase, sufijo \in Sufijos}

\* an indented line: w blanks or tabs before a content that starts a token
Contenidos ==
    {<<"x">>, <<"x", " ", "=", " ", "1">>, <<"$">>, <<"#", " ", "c">>,
     <<"0", "b">>, <<"x", " ">>}

Sangrias == UNION {{repetir(" ", w), repetir("\t", w)} : w \in 0..MaxSangria}

FormaSangria(sangria, contenido) == sangria \o contenido

TextosSangria ==
    {FormaSangria(sangria, contenido) : sangria \in Sangrias, contenido \in Contenidos}

TextosLexicos == TextosLibres \cup TextosAsignacion \cup TextosPrefijo \cup TextosSangria

\* def NAME ( p1 , ... , pn ) with or without the ':'
Parametros == {<<"x">>, <<"y", "1">>}

RECURSIVE ListaParametros(_)
ListaParametros(ps) ==
    IF ps = << >> THEN << >>
    ELSE IF Len(ps) = 1 THEN Head(ps)
    ELSE Head(ps) \o <<",", " ">> \o ListaParametros(Tail(ps))

FormaCabecera(ps, cierre) ==
    Unir(<<kw_def, <<" ", "f", "(">>, ListaParametros(ps), <<")">>, cierre>>)

Cabeceras(cierre) == {FormaCabecera(ps, cierre) : ps \in Cadenas(Parametros, MaxParametros)}

TextosCabecera == Cabeceras(<<":">>) \cup Cabeceras(<< >>)

\* the lines of the programs drawn line by line
LineasMuestra ==
    {<<"x", " ", "=", " ", "1">>,
     <<"y", " ", "=", " ", "0", "b">>,
     kw_def \o <<" ", "f", "(", "x", ")", ":">>,
     kw_def \o <<" ", "f", "(", "x", ")">>,
     <<"p", "r", "i", "n", "t", "(", "x", ")">>,
     <<"g", "(", "x">>,
     <<" ", " ", " ", "x">>}

Programas == {UnirLineas(ls) : ls \in Cadenas(LineasMuestra, MaxLineas)}

\* the text a later call passes when it does not repeat the first call's
OtroTexto == Texto(kw_def \o <<" ", "f", "(", "x", ")">>)

\* the calls of a run: the first passes c, every later one c again or OtroTexto
Llamadas(primeros) ==
    {[h \in Hilos |-> IF h \in otros THEN OtroTexto ELSE c] :
        c \in primeros, otros \in SUBSET (Hilos \ {1})}

EntradasPrograma ==
    {Texto(s) : s \in Programas \cup TextosCabecera} \cup {NoTexto}

\* a text passed by the first call; the later calls pass no text
Unicas(textos) == {[h \in Hilos |-> IF h = 1 THEN Texto(s) ELSE NoTexto] : s \in textos}

\* the pairs of texts passed by overlapping calls
TextosConcurrentes ==
    {Texto(<<"x", " ", "=", " ", "1">>),
     Texto(kw_def \o <<" ", "f", "(", "x", ")">>),
     Texto(<<"p", "r", "i", "n", "t", "(", "x", ")">>)}

Init == InitCon(Llamadas(EntradasPrograma))

InitLexico == InitCon(Unicas(TextosLexicos))

InitConcurrente == InitCon([Hilos -> TextosConcurrentes])

\* calls made one after another on programs
Spec == Init /\ [][Next]_vars

\* calls made one after another on texts drawn character by character
SpecLexico == InitLexico /\ [][Next]_vars

\* calls that overlap, as the threads of compilar_codigo do
SpecConcurrente == InitConcurrente /\ [][NextConcurrente]_vars

\* a started call is scheduled until it returns
\* the calls of both families, each thread running until its call returns
InitTerminacion == InitCon(Llamadas(EntradasPrograma) \cup Unicas(TextosLexicos))

SpecTerminacion == InitTerminacion /\ [][Next]_vars /\ WF_vars(Next)

\* ' '.join(palabras)
RECURSIVE UnirPalabras(_)
UnirPalabras(palabras) ==
    IF palabras = << >> THEN << >>
    ELSE IF Len(palabras) = 1 THEN Head(palabras)
    ELSE Head(palabras) \o <<" ">> \o UnirPalabras(Tail(palabras))

\* bound: the number of words of the lines drawn word by word
MaxPalabras == 3

\* a line that uses names: words of PalabrasUso separated by one blank
PalabrasUso == {<<"x">>, <<"F">>, <<"(">>, <<")">>, <<".">>}

LineasUso == {UnirPalabras(palabras) : palabras \in Cadenas(PalabrasUso, MaxPalabras)}

\* a call f(x)
FuncionesLlamadas ==
    {<<"p", "r", "i", "n", "t">>, <<"l", "e", "n">>, <<"F">>, <<"_", "f">>}

ArgumentosLlamados ==
    {<<"x">>, <<"F">>, <<"_", "x">>, <<"l", "e", "n">>,
     <<"_", "_", "n", "a", "m", "e", "_", "_">>}

FormaLlamada(f, x) == Unir(<<f, <<"(">>, x, <<")">>>>)

TextosLlamada == {FormaLlamada(f, x) : f \in FuncionesLlamadas, x \in ArgumentosLlamados}

\* a line that defines x or F, or no line
LineasDefinicion ==
    {<< >>,
     <<"x", " ", "=", " ", "1">>,
     kw_def \o <<" ", "F", "(", "x", ")", ":">>,
     kw_def \o <<" ", "g", "(", "F", ")", ":">>,
     kw_import \o <<" ", "F">>,
     kw_class \o <<" ", "F", ":">>,
     kw_for \o <<" ", "x", " ">> \o kw_in \o <<" ", "F", ":">>,
     kw_except \o <<" ", "F", " ">> \o kw_as \o <<" ", "x", ":">>}

\* the lines that are not empty, joined
LineasUnidas(lineas) == UnirLineas(SelectSeq(lineas, LAMBDA linea : linea # << >>))

\* a use line and a defining line, the definition before or after the use
TextosSemanticos ==
    {LineasUnidas(<<definicion, uso>>) :
        definicion \in LineasDefinicion, uso \in LineasUso \cup TextosLlamada}
    \cup {LineasUnidas(<<uso, definicion>>) :
              definicion \in LineasDefinicion, uso \in LineasUso \cup TextosLlamada}

InitSemantico == InitCon(Unicas(TextosSemanticos))

\* calls made one after another on lines that define and use names
SpecSemantico == InitSemantico /\ [][Next]_vars

\* def f( WORDS ) with or without the ':', the words separated by one blank
PalabrasParametro == {<<"x">>, <<"1">>, <<",">>, <<"=">>}

FormaParametros(palabras, cierre) ==
    Unir(<<kw_def, <<" ", "f", "(">>, UnirPalabras(palabras), <<")">>, cierre>>)

TextosParametros ==
    {FormaParametros(palabras, cierre) :
        palabras \in Cadenas(PalabrasParametro, MaxParametros + 1),
        cierre \in {<<":">>, << >>}}

\* class headers
TextosClase ==
    {kw_class \o <<" ", "c">>,
     kw_class \o <<" ", "C", "(", "1", ",", " ", "2", ")", ":">>,
     kw_class \o <<" ", "C", "(", "A", ")", ":">>}

\* a line that opens a construct and lacks what the construct requires next
LineasConstruccion ==
    {kw_def \o <<" ", "f", "(", "x", ")">>,
     kw_class \o <<" ", "C">>,
     kw_if \o <<" ", "x">>,
     kw_elif \o <<" ", "x">>,
     kw_else,
     kw_for \o <<" ", "x", " ">> \o kw_in \o <<" ", "y">>,
     kw_while \o <<" ", "x">>,
     kw_try,
     kw_except,
     kw_finally,
     kw_with \o <<" ", "x">>,
     kw_import,
     kw_from}

\* an expression line or an assignment line
LineasExpresion ==
    {<<"x">>,
     <<"x", " ", "=", " ", "1">>,
     <<"p", "r", "i", "n", "t", "(", "x", ")">>}

\* the lines drawn before a construct line
LineasPrevias ==
    LineasExpresion
        \cup {kw_if \o <<" ", "x", ":">>,
              <<"p", "a", "s", "s">>,
              <<"x", " ", "=", " ", "1", " ", "#", " ", "c">>}

FormaPrograma(previa, construccion) == UnirLineas(<<previa, construccion>>)

TextosPrograma ==
    {FormaPrograma(previa, construccion) :
        previa \in LineasPrevias, construccion \in LineasConstruccion}

TextosSintacticos ==
    TextosParametros \cup TextosClase \cup LineasConstruccion \cup TextosPrograma

InitSintactico == InitCon(Unicas(TextosSintacticos))

\* calls made one after another on headers and on two-line programs
SpecSintactico == InitSintactico /\ [][Next]_vars

\* bound: the length of the texts drawn symbol by symbol
MaxSimbolos == 3

\* texts of operator characters around a name
AlfabetoOperador == {"*", "/", "<", ">", "=", "x"}

TextosOperador == Cadenas(AlfabetoOperador, MaxSimbolos)

\* texts of characters that start no token, blanks and a name
AlfabetoInvalido == {"$", "?", "!", "x", " "}

TextosInvalidos == Cadenas(AlfabetoInvalido, MaxSimbolos)

\* a literal with two decimal points, two exponent markers or one of each
Cifras == {<<"1">>, <<"2", "3">>}

MarcasDecimales == {<<".">>, <<"e">>, <<"E">>}

FormaNumero(a, m1, b, m2, c) == Unir(<<a, m1, b, m2, c>>)

TextosNumero ==
    {FormaNumero(a, m1, b, m2, c) :
        a \in Cifras, m1 \in MarcasDecimales, b \in Cifras,
        m2 \in MarcasDecimales, c \in Cifras}

\* a string literal that its line does not close, after an optional "x = "
AperturasDeCadena ==
    {<<"\"">>, <<"'">>, <<"\"", "\"", "\"">>, <<"'", "'", "'">>}

AntesDeCadena == {<< >>, <<"x", " ", "=", " ">>}

RestosDeCadena == Cadenas({"x", " ", "$"}, MaxSimbolos)

FormaCadena(antes, apertura, resto) == Unir(<<antes, apertura, resto>>)

TextosCadena ==
    {FormaCadena(antes, apertura, resto) :
        antes \in AntesDeCadena, apertura \in AperturasDeCadena,
        resto \in RestosDeCadena}

TextosSimbolos == TextosOperador \cup TextosInvalidos \cup TextosNumero \cup TextosCadena

InitSimbolos == InitCon(Unicas(TextosSimbolos))

\* calls made one after another on texts drawn symbol by symbol
SpecSimbolos == InitSimbolos /\ [][Next]_vars

\* import statements: one module, a comma-separated list, two names without
\* a comma, an alias, and the from form with one name and with a list
LineasImport ==
    {kw_import \o <<" ", "m">>,
     kw_import \o <<" ", "m", ",", " ", "n">>,
     kw_import \o <<" ", "m", " ", "n">>,
     kw_import \o <<" ", "m", " ">> \o kw_as \o <<" ", "a">>,
     kw_from \o <<" ", "m", " ">> \o kw_import \o <<" ", "n">>,
     kw_from \o <<" ", "m", " ">> \o kw_import \o <<" ", "n", ",", " ", "a">>}

\* the line that follows the import statement, if any
LineasTrasImport ==
    {<< >>,
     <<"n">>,
     <<"a">>,
     <<"m">>,
     <<"n", " ", "a">>,
     <<"a", " ", "=", " ", "1">>,
     <<"n", "(", "m", ")">>}

TextosImport ==
    {LineasUnidas(<<sentencia, siguiente>>) :
        sentencia \in LineasImport, siguiente \in LineasTrasImport}

InitImport == InitCon(Unicas(TextosImport))

\* calls made one after another on import statements
SpecImport == InitImport /\ [][Next]_vars

\* bound: the number of elements of the lists drawn element by element
MaxElementos == 3

\* elements whose pass reads the element the walk stands on and, after a
\* def, the one behind it: a comment, an indentation, a keyword no handler
\* is bound to, a def, an EOF token, and an element that is no Token
ElementosDeLista ==
    {Token("COMENTARIO", <<"#">>, 1, 1),
     Token("INDENTACION", <<" ", " ", " ", " ">>, 1, 1),
     Token("PALABRA_RESERVADA", <<"l", "a", "m", "b", "d", "a">>, 1, 1),
     Token("PALABRA_RESERVADA", kw_def, 1, 1),
     Token("EOF", << >>, 1, 1),
     Defecto}

\* the lists drawn element by element and the lists the scanner returns
ListasDeElementos ==
    Cadenas(ElementosDeLista, MaxElementos)
        \cup {tokenizar(texto).tokens : texto \in LineasConstruccion}

\* the first call passes a list; the later calls pass the empty list
ListasUnicas(argumentos) ==
    {[h \in Hilos |-> ListaDeTokens(IF h = 1 THEN tokens ELSE << >>)] :
        tokens \in argumentos}

InitAnalizar == InitCon(ListasUnicas(ListasDeElementos))

\* calls of analizar made one after another by a client of the validator
SpecAnalizar == InitAnalizar /\ [][NextAnalizar]_vars

\* calls that do not overlap return what compilar computes start to return
ResultadoEsCompilar == \A h \in Hilos : pc[h] = "fin" => Vista(h) = compilar(codigo[h])

(***************************************************************************)
(* Properties.                                                             *)
(***************************************************************************)
\* call h has returned
Retorno(h) == pc[h] = "fin"

\* tokenizar has returned in call h: lexico[h] holds its lines and its result
Tokenizado(h) ==
    /\ codigo[h].tipo = "str"
    /\ pc[h] \in {"sintactico", "semantico", "fin"}

\* C1: in every result compilar returns at most one of the three diagnostic
\* lists is non-empty: lexical diagnostics leave the structural and the
\* semantic list empty, structural diagnostics leave the semantic list empty.
GatingInvariant ==
    \A h \in Hilos :
        Retorno(h) =>
            LET v == Vista(h)
            IN  /\ v.errores_lexicos # << >> =>
                       v.errores_sintacticos = << >> /\ v.errores_semanticos = << >>
                /\ v.errores_sintacticos # << >> => v.errores_semanticos = << >>
                /\ Cardinality({l \in {v.errores_lexicos, v.errores_sintacticos,
                                       v.errores_semanticos} : l # << >>}) <= 1

\* a call returned structural diagnostics for tokens the checker would flag
GatingWitness ==
    \E h \in Hilos :
        /\ Retorno(h)
        /\ Vista(h).errores_sintacticos # << >>
        /\ Vista(h).errores_semanticos = << >>
        /\ analizar_semantico(Vista(h).tokens) # << >>

\* the cursors of the three stages stay within their lists
CursoresAcotados ==
    \A h \in Hilos :
        /\ lexico[h].i <= Len(lexico[h].contenido)
        /\ sintactico.posicion <= Len(sintactico.tokens)
        /\ semantico[h].i <= Len(local[h].tokens) + 1

\* a step inside a loop of call h moves that loop's cursor forward, or ends
\* the line in the scanner
Progreso(h) ==
    /\ (pc[h] = "lexico" /\ lexico[h].en_linea /\ lexico'[h] # lexico[h]) =>
           (lexico'[h].i > lexico[h].i \/ ~lexico'[h].en_linea)
    /\ (pc[h] = "sintactico" /\ pc'[h] = "sintactico"
            /\ <<sintactico, listas>>' # <<sintactico, listas>>) =>
           sintactico'.posicion > sintactico.posicion
    /\ (pc[h] = "semantico" /\ semantico'[h] # semantico[h]) =>
           (semantico'[h].i > semantico[h].i /\ semantico[h].i < Len(local[h].tokens))

\* C2: compilar terminates for every input: each pass of the scanner's
\* per-line loop moves the character cursor forward or ends the line, each
\* statement of the validator moves the token cursor forward, the checker's
\* collecting scan moves forward and stops at the number of tokens, and
\* every call returns.
Terminacion ==
    /\ [][\A h \in Hilos : Progreso(h)]_vars
    /\ []CursoresAcotados
    /\ <>(\A h \in Hilos : Retorno(h))

\* a call ran all three loops and returned
TerminacionWitness ==
    \E h \in Hilos :
        /\ Retorno(h)
        /\ Len(Vista(h).tokens) >= 3
        /\ Vista(h).total_errores = 0
        /\ semantico[h].i >= Len(local[h].tokens)

\* C3: a fault raised inside a stage does not leave compilar: the call
\* returns a well-formed result with no token, exactly one LEXICO diagnostic,
\* at line 1 and column 1, and empty structural and semantic lists.
FaultBoundary ==
    \A h \in Hilos :
        (pc[h] # "inactivo" /\ codigo[h].tipo # "str") =>
            /\ Retorno(h)
            /\ DOMAIN resultado[h] = DOMAIN resultado_de_fallo
            /\ LET v == Vista(h)
               IN  /\ v.tokens = << >>
                   /\ Len(v.errores_lexicos) = 1
                   /\ v.errores_lexicos[1].tipo = "LEXICO"
                   /\ v.errores_lexicos[1].linea = 1
                   /\ v.errores_lexicos[1].columna = 1
                   /\ v.errores_sintacticos = << >>
                   /\ v.errores_semanticos = << >>
                   /\ v.total_errores = 1
                   /\ ~v.exito

\* a call whose scanner faulted has returned
FaultBoundaryWitness ==
    \E h \in Hilos :
        /\ codigo[h] = NoTexto
        /\ Retorno(h)
        /\ Vista(h).errores_lexicos[1].mensaje = "Error critico"

\* C4: two calls of compilar with the same text on the same instance return
\* equal results: the same tokens and the same lexical, structural and
\* semantic diagnostic lists, whatever the first call left in the objects.
Idempotence ==
    \A g, h \in Hilos :
        (Retorno(g) /\ Retorno(h) /\ codigo[g] = codigo[h]) => Vista(g) = Vista(h)

\* the second call of a text returned after a first one that left a cursor
\* past the start and a non-empty diagnostic list in the validator
IdempotenceWitness ==
    \E g, h \in Hilos :
        /\ g < h
        /\ Retorno(g) /\ Retorno(h)
        /\ codigo[g] = codigo[h]
        /\ Vista(g).errores_sintacticos # << >>
        /\ sintactico.posicion > 0

\* C5: two calls of compilar on different texts that overlap on the same
\* instance each return the result the call returns when run alone.
ConcurrentCallsSafe ==
    \A h \in Hilos :
        (Retorno(h) /\ \A g \in Hilos \ {h} : codigo[g] # codigo[h]) =>
            Vista(h) = compilar(codigo[h])

\* the text of the tokens scanned from line k, Indent tokens left out
RECURSIVE texto_de_tokens(_, _)
texto_de_tokens(tokens, k) ==
    IF tokens = << >>
    THEN << >>
    ELSE (IF Head(tokens).linea = k /\ Head(tokens).tipo # "INDENTACION"
          THEN Head(tokens).valor ELSE << >>) \o texto_de_tokens(Tail(tokens), k)

\* s without its whitespace
sin_espacios(s) == SelectSeq(s, LAMBDA x : ~isspace(x))

\* s without its whitespace and without '_'
sin_espacios_ni_guiones(s) == SelectSeq(s, LAMBDA x : ~isspace(x) /\ x # "_")

\* line k of call h produced no lexical diagnostic but the indentation one
linea_sin_errores(h, k) ==
    \A j \in 1..Len(lexico[h].errores) :
        lexico[h].errores[j].linea = k =>
            lexico[h].errores[j].mensaje = "Indentacion incorrecta"

\* C6 as stated: for every source line, the texts of its tokens, Indent left
\* out, concatenated in order are the line's content without its whitespace.
RoundTripAsStated ==
    \A h \in Hilos :
        Tokenizado(h) =>
            \A k \in 1..Len(lexico[h].lineas) :
                texto_de_tokens(lexico[h].tokens, k) = sin_espacios(lexico[h].lineas[k])

\* C6: for every source line that produces no lexical diagnostic other than
\* the indentation one, the texts of its tokens, Indent left out, concatenated
\* in order and the line's content are equal once whitespace and '_' are
\* removed from both.
RoundTrip ==
    \A h \in Hilos :
        Tokenizado(h) =>
            \A k \in 1..Len(lexico[h].lineas) :
                linea_sin_errores(h, k) =>
                    sin_espacios_ni_guiones(texto_de_tokens(lexico[h].tokens, k))
                        = sin_espacios_ni_guiones(lexico[h].lineas[k])

\* a line without diagnostics whose token texts are not its content without
\* whitespace: a number written with '_', or a literal that holds a blank
RoundTripWitness ==
    \E h \in Hilos :
        /\ Tokenizado(h)
        /\ lexico[h].errores = << >>
        /\ \E k \in 1..Len(lexico[h].tokens) : lexico[h].tokens[k].tipo = "NUMERO"
        /\ texto_de_tokens(lexico[h].tokens, 1) # sin_espacios(lexico[h].lineas[1])

\* C7: an unindented line NAME = DIGITS scans to exactly the three tokens
\* IDENTIFICADOR(NAME), OPERADOR('='), NUMERO(DIGITS), in that order and at
\* their columns, with no lexical diagnostic; a trailing empty line adds none.
AssignmentTokens ==
    \A h \in Hilos :
        (Tokenizado(h) /\ codigo[h].valor \in TextosAsignacion) =>
            \A nombre \in Nombres, b1 \in Blancos, b2 \in Blancos,
               entero \in Enteros, final \in Finales :
                codigo[h].valor = FormaAsignacion(nombre, b1, b2, entero, final) =>
                    /\ lexico[h].errores = << >>
                    /\ lexico[h].tokens =
                           <<Token("IDENTIFICADOR", nombre, 1, 1),
                             Token("OPERADOR", <<"=">>, 1, Len(nombre) + Len(b1) + 1),
                             Token("NUMERO", entero, 1,
                                   Len(nombre) + Len(b1) + Len(b2) + 2)>>

\* a line NAME = DIGITS followed by a line feed has been scanned
AssignmentTokensWitness ==
    \E h \in Hilos :
        /\ Tokenizado(h)
        /\ codigo[h].valor = FormaAsignacion(<<"x">>, <<" ">>, <<" ">>, <<"1", "0">>, <<"\n">>)
        /\ Len(lexico[h].tokens) = 3
        /\ lexico[h].tokens[2].tipo = "OPERADOR"

\* the digits of the base a prefix letter names
digitos_de(marca) ==
    IF lower(marca) = "b" THEN {"0", "1"}
    ELSE IF lower(marca) = "o" THEN {"0", "1", "2", "3", "4", "5", "6", "7"}
    ELSE Digitos \cup {"a", "b", "c", "d", "e", "f", "A", "B", "C", "D", "E", "F"}

\* no digit of the base follows the prefix: what follows is at most '_'s up
\* to a character that is no digit of the base
sin_digitos(marca, sufijo) ==
    \A k \in 1..Len(sufijo) :
        (\A j \in 1..(k - 1) : sufijo[j] = "_") => sufijo[k] \notin digitos_de(marca)

\* C8: a base prefix 0b, 0o or 0x, in either letter case, that no digit of
\* its base follows yields exactly one LEXICO "incomplete number" diagnostic,
\* at the literal's position, and no token at that position.
IncompletePrefix ==
    \A h \in Hilos :
        (Tokenizado(h) /\ codigo[h].valor \in TextosPrefijo) =>
            \A antes \in Antes, marca \in MarcasDeBase, sufijo \in Sufijos :
                (/\ codigo[h].valor = FormaPrefijo(antes, marca, sufijo)
                 /\ sin_digitos(marca, sufijo)) =>
                    LET incompletos ==
                            {j \in 1..Len(lexico[h].errores) :
                                lexico[h].errores[j].mensaje = "Numero {prefijo} incompleto"}
                    IN  /\ Cardinality(incompletos) = 1
                        /\ \A j \in incompletos :
                               /\ lexico[h].errores[j].tipo = "LEXICO"
                               /\ lexico[h].errores[j].linea = 1
                               /\ lexico[h].errores[j].columna = Len(antes) + 1
                               /\ lexico[h].errores[j].dato = <<"0", lower(marca)>>
                        /\ \A j \in 1..Len(lexico[h].tokens) :
                               lexico[h].tokens[j].columna # Len(antes) + 1

\* "y = 0X_" has been scanned: an upper-case prefix followed by a separator
IncompletePrefixWitness ==
    \E h \in Hilos :
        /\ Tokenizado(h)
        /\ codigo[h].valor = FormaPrefijo(<<"y", " ", "=", " ">>, "X", <<"_">>)
        /\ Len(lexico[h].errores) = 1
        /\ Len(lexico[h].tokens) = 2

\* the indentation diagnostics among errores
de_indentacion(errores) ==
    SelectSeq(errores, LAMBDA e : e.mensaje = "Indentacion incorrecta")

\* C9: a non-blank line with w > 0 leading whitespace characters yields an
\* INDENTACION token of width w followed by the tokens of the rest of the
\* line, with exactly one LEXICO indentation diagnostic for the line when w
\* is no multiple of 4 and none when it is.
IndentationWidth ==
    \A h \in Hilos :
        (Tokenizado(h) /\ codigo[h].valor \in TextosSangria) =>
            \A sangria \in Sangrias \ {<< >>}, contenido \in Contenidos :
                codigo[h].valor = FormaSangria(sangria, contenido) =>
                    LET w == Len(sangria)
                        resto == tokenizar_linea(contenido, 1)
                        indentacion == de_indentacion(lexico[h].errores)
                    IN  /\ lexico[h].tokens =
                               <<Token("INDENTACION", repetir(" ", w), 1, 1)>>
                                   \o resto.tokens
                        /\ Len(lexico[h].tokens[1].valor) = w
                        /\ Len(indentacion) = (IF w % 4 = 0 THEN 0 ELSE 1)
                        /\ \A j \in 1..Len(indentacion) :
                               indentacion[j].tipo = "LEXICO" /\ indentacion[j].linea = 1
                        /\ lexico[h].errores = indentacion \o resto.errores

\* a line indented by 3 blanks has been scanned
IndentationWidthWitness ==
    \E h \in Hilos :
        /\ Tokenizado(h)
        /\ codigo[h].valor = FormaSangria(repetir(" ", 3), <<"x", " ", "=", " ", "1">>)
        /\ Len(lexico[h].errores) = 1
        /\ Len(lexico[h].tokens) = 4

\* analizar has returned in call h: its list is in local[h]
Analizado(h) == codigo[h].tipo = "str" /\ pc[h] \in {"semantico", "fin"}

\* C10: for a single function header def NAME ( p1 , ... , pn ) with
\* identifier parameters the validator emits no diagnostic when the header
\* ends with ':', and exactly one SINTACTICO diagnostic, the one that names
\* the missing ':', when the ':' is missing.
FunctionHeader ==
    \A h \in Hilos :
        (Analizado(h) /\ local[h].errores_lexicos = << >>) =>
            LET errores == Lista(local[h].errores_sintacticos)
            IN  /\ codigo[h].valor \in Cabeceras(<<":">>) => errores = << >>
                /\ codigo[h].valor \in Cabeceras(<< >>) =>
                       /\ Len(errores) = 1
                       /\ errores[1].tipo = "SINTACTICO"
                       /\ errores[1].mensaje =
                              "Se esperaba ':' despues de la definicion de funcion"

\* the header "def f(x, y1)" without ':' has been validated
FunctionHeaderWitness ==
    \E h \in Hilos :
        /\ Retorno(h)
        /\ codigo[h].valor = FormaCabecera(<<<<"x">>, <<"y", "1">>>>, << >>)
        /\ Len(Vista(h).errores_sintacticos) = 1

\* the diagnostic of the variable check for the argument x of the call f(x)
diagnostico_de_argumento(f, x) ==
    Error("SEMANTICO", "Variable utilizada sin definir", x, 1, Len(f) + 2)

\* C11 as stated: for a text that is the call f(x) with f a builtin name and
\* x an identifier that nothing in the text defines, the checker returns
\* exactly one diagnostic, the SEMANTICO one for x, whatever the name x.
BuiltinCallAsStated ==
    \A h \in Hilos :
        (Retorno(h) /\ codigo[h].tipo = "str" /\ codigo[h].valor \in TextosLlamada) =>
            \A f \in FuncionesLlamadas \cap built_ins, x \in ArgumentosLlamados :
                codigo[h].valor = FormaLlamada(f, x) =>
                    Vista(h).errores_semanticos = <<diagnostico_de_argumento(f, x)>>

\* C11: for a text that is the call f(x) with f a builtin name and x an
\* identifier that nothing in the text defines, that is no builtin name and
\* no special name and does not start with '_', the checker returns exactly
\* one diagnostic: the SEMANTICO one for x, and none for f.
BuiltinCall ==
    \A h \in Hilos :
        (Retorno(h) /\ codigo[h].tipo = "str" /\ codigo[h].valor \in TextosLlamada) =>
            \A f \in FuncionesLlamadas \cap built_ins, x \in ArgumentosLlamados :
                (/\ codigo[h].valor = FormaLlamada(f, x)
                 /\ x \notin built_ins \cup variables_especiales
                 /\ ~empieza_con_guion(x)) =>
                    Vista(h).errores_semanticos = <<diagnostico_de_argumento(f, x)>>

BuiltinCallWitness ==
    \E h \in Hilos :
        /\ Retorno(h)
        /\ codigo[h] = Texto(FormaLlamada(<<"p", "r", "i", "n", "t">>, <<"x">>))
        /\ Len(Vista(h).errores_semanticos) = 1
        /\ Vista(h).errores_semanticos[1].dato = <<"x">>

\* the keywords _analizar_sentencia hands to a construct handler
construcciones ==
    {kw_def, kw_class, kw_if, kw_elif, kw_else, kw_for, kw_while, kw_try,
     kw_except, kw_finally, kw_with, kw_import, kw_from}

\* the validator of call h is about to analyse a statement
EnSentencia(h) == pc[h] = "sintactico" /\ ~analisis_terminado(h)

\* C12: a pass of the validator over a statement that starts with a
\* construct keyword (def, class, if, elif, else, for, while, try, except,
\* finally, with, import, from) adds at most one diagnostic.
OneDiagnosticPerHandler ==
    [][\A h \in Hilos :
           (/\ EnSentencia(h)
            /\ token_actual(analizador_actual).tipo = "PALABRA_RESERVADA"
            /\ token_actual(analizador_actual).valor \in construcciones) =>
               Len(listas'[sintactico.errores]) <= Len(listas[sintactico.errores]) + 1]_vars

\* the names _recopilar_definiciones recorded for call h
nombres_recopilados(h) ==
    LET d == semantico[h].definiciones
    IN  d.funciones \cup d.clases \cup d.variables \cup d.imports \cup d.parametros

\* the diagnostics of the variable check in the result of call h
variables_sin_definir(h) ==
    SelectSeq(Vista(h).errores_semanticos,
              LAMBDA e : e.mensaje = "Variable utilizada sin definir")

\* C13: no identifier whose name is recorded as a definition anywhere in the
\* token stream (function, class, variable, import or parameter; before or
\* after the use) is reported as an undefined variable.
OrderScopeInsensitive ==
    \A h \in Hilos :
        (Retorno(h) /\ codigo[h].tipo = "str") =>
            \A k \in 1..Len(variables_sin_definir(h)) :
                variables_sin_definir(h)[k].dato \notin nombres_recopilados(h)

\* the checker ran in call h and the call has returned
Comprobado(h) ==
    /\ Retorno(h)
    /\ codigo[h].tipo = "str"
    /\ Vista(h).errores_lexicos = << >>
    /\ Vista(h).errores_sintacticos = << >>

\* the diagnostics with this message located at the token
diagnosticos_en(errores, mensaje, token) ==
    SelectSeq(errores,
              LAMBDA e : /\ e.mensaje = mensaje
                         /\ e.linea = token.linea
                         /\ e.columna = token.columna)

\* the token at i lies between a 'for' and the first 'in' after it
entre_for_e_in(tokens, i) ==
    \E j \in Rango(0, i) :
        /\ es_palabra(tokens, j, kw_for)
        /\ \A m \in Rango(j + 1, i + 1) : tokens[m + 1].valor # kw_in
        /\ \E k \in Rango(i + 1, Len(tokens)) : tokens[k + 1].valor = kw_in

\* the token at i lies inside the parentheses of a def header
en_parentesis_de_def(tokens, i) ==
    \E j \in Rango(0, i) :
        /\ es_palabra(tokens, j, kw_def)
        /\ tiene_valor(tokens, j + 2, <<"(">>)
        /\ j + 2 < i
        /\ \A m \in Rango(j + 3, i + 1) : tokens[m + 1].valor # <<")">>

\* the token at i is the name bound by except ... as
ligado_por_except(tokens, i) ==
    /\ i > 0
    /\ tokens[i].valor = kw_as
    /\ \E j \in Rango(0, i - 1) :
           es_palabra(tokens, j, kw_except) /\ tokens[j + 1].linea = tokens[i + 1].linea

\* the token at i is in one of the four definition contexts
en_contexto_de_definicion(tokens, i) ==
    \/ i + 1 < Len(tokens) /\ tokens[i + 2].valor \in asignaciones
    \/ entre_for_e_in(tokens, i)
    \/ en_parentesis_de_def(tokens, i)
    \/ ligado_por_except(tokens, i)

\* what the rule of the variable check lists as exempting the token at i
exento_de_variable(tokens, i, d) ==
    LET nombre == tokens[i + 1].valor
    IN  \/ en_contexto_de_definicion(tokens, i)
        \/ nombre \in d.funciones \cup d.clases \cup d.variables \cup d.imports
                          \cup d.parametros
        \/ nombre \in built_ins \cup variables_especiales
        \/ empieza_con_guion(nombre)
        \/ tiene_valor(tokens, i + 1, <<"(">>)
        \/ (i > 0 /\ tokens[i].valor = <<".">>)

\* C14: an IDENTIFICADOR token gets the undefined-variable diagnostic if and
\* only if it is in no definition context (followed by an assignment
\* operator, between for and in, inside the parentheses of a def, bound by
\* except ... as), its name is in none of the collected sets (functions,
\* classes, variables, imports, parameters), is no builtin name and no
\* special name, does not start with '_', and the token is neither followed
\* by '(' nor preceded by '.'.
UndefinedVariableRule ==
    \A h \in Hilos :
        Comprobado(h) =>
            LET tokens == local[h].tokens
            IN  \A i \in Rango(0, Len(tokens)) :
                    tokens[i + 1].tipo = "IDENTIFICADOR" =>
                        (diagnosticos_en(Vista(h).errores_semanticos,
                                         "Variable utilizada sin definir",
                                         tokens[i + 1]) # << >>
                            <=> ~exento_de_variable(tokens, i, semantico[h].definiciones))

\* C15: an IDENTIFICADOR token followed by '(' and not preceded by '.' gets
\* the undefined-function diagnostic if and only if its name is in none of
\* the collected functions, imports and classes, is no builtin name and does
\* not start with '_'; a name recorded as a variable or a parameter only is
\* reported.
UndefinedFunctionRule ==
    \A h \in Hilos :
        Comprobado(h) =>
            LET tokens == local[h].tokens
                d == semantico[h].definiciones
            IN  \A i \in Rango(0, Len(tokens)) :
                    (/\ tokens[i + 1].tipo = "IDENTIFICADOR"
                     /\ tiene_valor(tokens, i + 1, <<"(">>)
                     /\ ~(i > 0 /\ tokens[i].valor = <<".">>)) =>
                        (diagnosticos_en(Vista(h).errores_semanticos,
                                         "Funcion no esta definida",
                                         tokens[i + 1]) # << >>
                            <=> /\ tokens[i + 1].valor \notin
                                       d.funciones \cup d.imports \cup d.clases
                                /\ tokens[i + 1].valor \notin built_ins
                                /\ ~empieza_con_guion(tokens[i + 1].valor))

UndefinedFunctionRuleWitness ==
    \E h \in Hilos :
        /\ Comprobado(h)
        /\ codigo[h].valor =
               LineasUnidas(<<<<"x", " ", "=", " ", "1">>, <<"x", " ", "(">>>>)
        /\ <<"x">> \in semantico[h].definiciones.variables
        /\ \E k \in 1..Len(Vista(h).errores_semanticos) :
               LET e == Vista(h).errores_semanticos[k]
               IN  /\ e.mensaje = "Funcion no esta definida"
                   /\ e.dato = <<"x">>
                   /\ e.linea = 2

\* 1 plus the '(' minus the ')' among the tokens at the positions desde..hasta
profundidad(tokens, desde, hasta) ==
    1 + Cardinality({m \in desde..hasta : tokens[m + 1].valor = <<"(">>})
      - Cardinality({m \in desde..hasta : tokens[m + 1].valor = <<")">>})

\* the depth of the call that opens after the token at i never returns to zero
sin_cerrar(tokens, i) ==
    \A m \in Rango(i + 2, Len(tokens)) : profundidad(tokens, i + 2, m) > 0

\* C16: for every IDENTIFICADOR token followed by '(' the semantic list holds
\* exactly one SINTACTICO diagnostic located at the identifier when the
\* parenthesis depth never returns to zero before the token list ends, and
\* no such diagnostic when the depth returns to zero.
UnclosedCall ==
    \A h \in Hilos :
        Comprobado(h) =>
            LET tokens == local[h].tokens
            IN  \A i \in Rango(0, Len(tokens)) :
                    (/\ tokens[i + 1].tipo = "IDENTIFICADOR"
                     /\ tiene_valor(tokens, i + 1, <<"(">>)) =>
                        LET hallados ==
                                diagnosticos_en(Vista(h).errores_semanticos,
                                    "Parentesis sin cerrar en llamada a funcion",
                                    tokens[i + 1])
                            estructurales ==
                                SelectSeq(Vista(h).errores_semanticos,
                                    LAMBDA e : /\ e.tipo = "SINTACTICO"
                                               /\ e.linea = tokens[i + 1].linea
                                               /\ e.columna = tokens[i + 1].columna)
                        IN  /\ hallados = estructurales
                            /\ Len(hallados) = IF sin_cerrar(tokens, i) THEN 1 ELSE 0

UnclosedCallWitness ==
    \E h \in Hilos :
        /\ Comprobado(h)
        /\ codigo[h].valor = <<"F", " ", "(", " ", "x">>
        /\ \E k \in 1..Len(Vista(h).errores_semanticos) :
               LET e == Vista(h).errores_semanticos[k]
               IN  e.tipo = "SINTACTICO" /\ e.dato = <<"F">> /\ e.columna = 1

\* the diagnostics of category SEMANTICO located at the token
semanticos_en(errores, token) ==
    SelectSeq(errores,
              LAMBDA e : /\ e.tipo = "SEMANTICO"
                         /\ e.linea = token.linea
                         /\ e.columna = token.columna)

\* the token at i is a use of a name as a variable
uso_simple(tokens, i) ==
    /\ tokens[i + 1].tipo = "IDENTIFICADOR"
    /\ ~tiene_valor(tokens, i + 1, <<"(">>)
    /\ ~(i > 0 /\ tokens[i].valor = <<".">>)
    /\ ~en_contexto_de_definicion(tokens, i)

\* the token at i is a call of a name
uso_llamada(tokens, i) ==
    /\ tokens[i + 1].tipo = "IDENTIFICADOR"
    /\ tiene_valor(tokens, i + 1, <<"(">>)
    /\ ~(i > 0 /\ tokens[i].valor = <<".">>)

\* C17: the checker neither merges nor doubles its reports: when a name is
\* reported as undefined at one of its uses as a variable (as a called
\* function), every use of that name as a variable (as a called function)
\* has exactly one SEMANTICO diagnostic located at it, every SEMANTICO
\* diagnostic is located at an occurrence of the name it reports, and no
\* IDENTIFICADOR token has more than one SEMANTICO diagnostic located at it.
NoDeduplication ==
    \A h \in Hilos :
        Comprobado(h) =>
            LET tokens == local[h].tokens
                errores == Vista(h).errores_semanticos
                usos(nombre) ==
                    {i \in Rango(0, Len(tokens)) :
                        uso_simple(tokens, i) /\ tokens[i + 1].valor = nombre}
                llamadas(nombre) ==
                    {i \in Rango(0, Len(tokens)) :
                        uso_llamada(tokens, i) /\ tokens[i + 1].valor = nombre}
            IN  /\ \A i \in Rango(0, Len(tokens)) :
                       tokens[i + 1].tipo = "IDENTIFICADOR" =>
                           Len(semanticos_en(errores, tokens[i + 1])) <= 1
                /\ \A i \in Rango(0, Len(tokens)) :
                       (/\ uso_simple(tokens, i)
                        /\ semanticos_en(errores, tokens[i + 1]) # << >>) =>
                           \A j \in usos(tokens[i + 1].valor) :
                               Len(semanticos_en(errores, tokens[j + 1])) = 1
                /\ \A i \in Rango(0, Len(tokens)) :
                       (/\ uso_llamada(tokens, i)
                        /\ semanticos_en(errores, tokens[i + 1]) # << >>) =>
                           \A j \in llamadas(tokens[i + 1].valor) :
                               Len(semanticos_en(errores, tokens[j + 1])) = 1
                /\ \A k \in 1..Len(errores) :
                       errores[k].tipo = "SEMANTICO" =>
                           \E i \in Rango(0, Len(tokens)) :
                               /\ tokens[i + 1].tipo = "IDENTIFICADOR"
                               /\ tokens[i + 1].valor = errores[k].dato
                               /\ tokens[i + 1].linea = errores[k].linea
                               /\ tokens[i + 1].columna = errores[k].columna

NoDeduplicationWitness ==
    \E h \in Hilos :
        /\ Comprobado(h)
        /\ codigo[h].valor = <<"x", " ", "x", " ", "x">>
        /\ Len(Vista(h).errores_semanticos) = 3
        /\ \A k \in 1..3 :
               LET e == Vista(h).errores_semanticos[k]
               IN  e.tipo = "SEMANTICO" /\ e.dato = <<"x">> /\ e.columna = 2 * k - 1

\* the statement that starts at this token has the validator skip an expression
salta_expresion(token) ==
    IF token.tipo = "PALABRA_RESERVADA"
    THEN token.valor \in {kw_if, kw_elif, kw_while, kw_for, kw_with}
                             \cup sentencias_con_expresion
    ELSE token.tipo \notin {"NUEVA_LINEA", "INDENTACION", "COMENTARIO"}

\* C18: a pass of the validator over a statement in which it skips an
\* expression consumes tokens of the source line the statement starts on
\* only: the cursor does not move past the end of that line.
ExpressionSkipStaysOnLine ==
    [][\A h \in Hilos :
           (EnSentencia(h) /\ salta_expresion(token_actual(analizador_actual))) =>
               \A m \in Rango(sintactico.posicion, sintactico'.posicion) :
                   sintactico.tokens[m + 1].linea =
                       token_actual(analizador_actual).linea]_vars

\* the diagnostics the validator gives for the text when it is the whole program
diagnosticos_de_linea(linea) == analizar_sintactico(tokenizar(linea).tokens)

\* C19: a line that starts with a construct keyword is handed to the
\* construct's handler whatever the line before it holds: the diagnostic the
\* handler gives for the line alone is among the diagnostics of the program
\* that has it as line 2, also when line 1 is an expression or an assignment.
ConstructLinesDispatched ==
    \A h \in Hilos :
        (Retorno(h) /\ codigo[h].tipo = "str" /\ codigo[h].valor \in TextosPrograma) =>
            \A previa \in LineasPrevias, construccion \in LineasConstruccion :
                codigo[h].valor = FormaPrograma(previa, construccion) =>
                    \E k \in 1..Len(Vista(h).errores_sintacticos) :
                        LET e == Vista(h).errores_sintacticos[k]
                        IN  /\ e.tipo = "SINTACTICO"
                            /\ e.mensaje = diagnosticos_de_linea(construccion)[1].mensaje

\* the messages of _analizar_parametros_funcion
mensajes_de_parametros ==
    {"Parametro invalido",
     "Se esperaba ',' entre parametros",
     "Se esperaba valor por defecto despues de '='"}

\* the diagnostics of the parameter list in the result of call h
diagnosticos_de_parametros(h) ==
    SelectSeq(Vista(h).errores_sintacticos,
              LAMBDA e : e.mensaje \in mensajes_de_parametros)

\* C20: for a def header the validator gives at most one diagnostic for the
\* whole parameter list: it stops at the first malformed parameter.
OneDiagnosticPerParameterList ==
    \A h \in Hilos :
        (Retorno(h) /\ codigo[h].tipo = "str" /\ codigo[h].valor \in TextosParametros) =>
            Len(diagnosticos_de_parametros(h)) <= 1

\* C21: every OPERADOR or DELIMITADOR token is the longest member of the
\* operator and delimiter sets that begins at its position: no member of the
\* sets that is up to 3 characters long and longer than the token begins
\* there.
LongestMatch ==
    \A h \in Hilos :
        (Tokenizado(h) /\ codigo[h].valor \in TextosOperador) =>
            LET contenido == codigo[h].valor
                tokens == lexico[h].tokens
            IN  \A k \in 1..Len(tokens) :
                    tokens[k].tipo \in {"OPERADOR", "DELIMITADOR"} =>
                        \A n \in (Len(tokens[k].valor) + 1)..3 :
                            tokens[k].columna - 1 + n <= Len(contenido) =>
                                Rebanada(contenido, tokens[k].columna - 1,
                                         tokens[k].columna - 1 + n)
                                    \notin operadores \cup delimitadores

\* the two marks are two decimal points or two exponent markers
marcas_repetidas(m1, m2) ==
    \/ m1 = <<".">> /\ m2 = <<".">>
    \/ m1 \in {<<"e">>, <<"E">>} /\ m2 \in {<<"e">>, <<"E">>}

\* C22: a numeric literal with two decimal points or with two exponent
\* markers gets a LEXICO diagnostic that names the literal, and no NUMERO
\* token is emitted for any part of it.
MalformedNumberRejected ==
    \A h \in Hilos :
        (Tokenizado(h) /\ codigo[h].valor \in TextosNumero) =>
            \A a \in Cifras, m1 \in MarcasDecimales, b \in Cifras,
               m2 \in MarcasDecimales, c \in Cifras :
                (/\ codigo[h].valor = FormaNumero(a, m1, b, m2, c)
                 /\ marcas_repetidas(m1, m2)) =>
                    /\ \E k \in 1..Len(lexico[h].errores) :
                           /\ lexico[h].errores[k].tipo = "LEXICO"
                           /\ lexico[h].errores[k].dato = codigo[h].valor
                    /\ \A k \in 1..Len(lexico[h].tokens) :
                           lexico[h].tokens[k].tipo # "NUMERO"

\* the characters of AlfabetoInvalido that can start no token
SinToken == {"$", "?", "!"}

\* C23: on a line of names, blanks and characters that can start no token
\* the scanner gives one LEXICO diagnostic per such character: the number of
\* lexical diagnostics of the line, the indentation diagnostic left out,
\* equals the number of such characters.
InvalidCharacterCount ==
    \A h \in Hilos :
        (Tokenizado(h) /\ codigo[h].valor \in TextosInvalidos) =>
            Len(SelectSeq(lexico[h].errores,
                          LAMBDA e : e.mensaje # "Indentacion incorrecta"))
                = Len(SelectSeq(codigo[h].valor, LAMBDA c : c \in SinToken))

\* C24: a string literal that its line does not close gives exactly one
\* LEXICO diagnostic, located at its opening quote, and no STRING token, and
\* nothing after the opening quote gives a further token or diagnostic: the
\* tokens of the line are those before the opening quote.
UnterminatedString ==
    \A h \in Hilos :
        (Tokenizado(h) /\ codigo[h].valor \in TextosCadena) =>
            \A antes \in AntesDeCadena, apertura \in AperturasDeCadena,
               resto \in RestosDeCadena :
                codigo[h].valor = FormaCadena(antes, apertura, resto) =>
                    /\ Len(lexico[h].errores) = 1
                    /\ lexico[h].errores[1].tipo = "LEXICO"
                    /\ lexico[h].errores[1].linea = 1
                    /\ lexico[h].errores[1].columna = Len(antes) + 1
                    /\ \A k \in 1..Len(lexico[h].tokens) :
                           /\ lexico[h].tokens[k].tipo # "STRING"
                           /\ lexico[h].tokens[k].columna <= Len(antes)

\* C25: the line of every token is the number of a physical line of the
\* text and, for every token but the INDENTACION token, the column is the
\* 1-based position in that physical line at which the token's first
\* character stands.
SourcePositions ==
    \A h \in Hilos :
        Tokenizado(h) =>
            LET lineas == lexico[h].lineas
                tokens == lexico[h].tokens
            IN  \A k \in 1..Len(tokens) :
                    /\ tokens[k].linea \in 1..Len(lineas)
                    /\ tokens[k].tipo # "INDENTACION" =>
                           /\ tokens[k].columna \in 1..Len(lineas[tokens[k].linea])
                           /\ lineas[tokens[k].linea][tokens[k].columna]
                                  = Head(tokens[k].valor)

\* the identifiers of the comma-separated list that starts at token k + 1
\* and stays on the line
RECURSIVE lista_de_nombres(_, _, _)
lista_de_nombres(tokens, k, linea) ==
    IF es_identificador(tokens, k) /\ tokens[k + 1].linea = linea
    THEN {tokens[k + 1].valor} \cup
             (IF tiene_valor(tokens, k + 1, <<",">>) /\ tokens[k + 2].linea = linea
              THEN lista_de_nombres(tokens, k + 2, linea)
              ELSE {})
    ELSE {}

\* the names the import keywords of the tokens are followed by
nombres_importados(tokens) ==
    UNION {lista_de_nombres(tokens, k, tokens[k].linea) :
              k \in {j \in 1..Len(tokens) : es_palabra(tokens, j - 1, kw_import)}}

\* C26: when the first pass of the checker has ended, its import set holds
\* exactly the identifiers of the comma-separated lists that follow the
\* import keywords on their own lines: no identifier of a later line and no
\* identifier that no comma separates from the list.
ImportsAreTheListedNames ==
    \A h \in Hilos :
        (Comprobado(h) /\ codigo[h].valor \in TextosImport) =>
            semantico[h].definiciones.imports = nombres_importados(local[h].tokens)

\* C27: an import statement of the forms import M, import M as A and
\* from M import N, alone in the text and accepted by the validator, gets no
\* SEMANTICO diagnostic.
WellFormedImportIsClean ==
    \A h \in Hilos :
        (/\ Comprobado(h)
         /\ codigo[h].valor \in
                {kw_import \o <<" ", "m">>,
                 kw_import \o <<" ", "m", " ">> \o kw_as \o <<" ", "a">>,
                 kw_from \o <<" ", "m", " ">> \o kw_import \o <<" ", "n">>})
            => Vista(h).errores_semanticos = << >>

\* analizar has returned in the call a client made on a list of its own
AnalizarRetorno(h) == pc[h] = "fin" /\ codigo[h].tipo = "list"

criticos(errores) ==
    SelectSeq(errores, LAMBDA e : e.mensaje = "Error critico en analisis sintactico")

\* the elements that are no Token and that the walk reaches: all elements
\* before them are tokens and none of those is an EOF token
defectos_alcanzados(tokens) ==
    {k \in 1..Len(tokens) :
        /\ ~es_token(tokens[k])
        /\ \A j \in 1..(k - 1) : es_token(tokens[j]) /\ tokens[j].tipo # "EOF"}

\* C28: analizar returns the list of its call in every case.  For the empty
\* list it is empty.  When the walk reaches an element whose read raises,
\* the list ends with exactly one 'Error critico en analisis sintactico'
\* diagnostic, SINTACTICO at line 1, column 1, after the diagnostics emitted
\* before the fault, and the cursor stays at that element; when no read
\* raises the list holds no such diagnostic.
FaultBecomesOneDiagnostic ==
    \A h \in Hilos :
        AnalizarRetorno(h) =>
            LET tokens == codigo[h].valor
                errores == Lista(resultado[h].errores)
            IN  /\ resultado[h] = Retornado(h)
                /\ tokens = << >> => errores = << >>
                /\ \A k \in defectos_alcanzados(tokens) :
                       /\ Len(criticos(errores)) = 1
                       /\ errores[Len(errores)] =
                              Error("SINTACTICO", "Error critico en analisis sintactico",
                                    <<"t", "i", "p", "o">>, 1, 1)
                       /\ sintactico.errores = h => sintactico.posicion = k - 1
                /\ defectos_alcanzados(tokens) = {} => criticos(errores) = << >>

\* a fault caught after the walk had emitted a diagnostic of its own, and
\* in a later call the empty list
FaultBecomesOneDiagnosticWitness ==
    \E h \in Hilos :
        /\ AnalizarRetorno(h)
        /\ Len(Lista(resultado[h].errores)) = 2
        /\ Len(criticos(Lista(resultado[h].errores))) = 1
        /\ \E g \in Hilos :
               /\ g > h
               /\ AnalizarRetorno(g)
               /\ codigo[g].valor = << >>

\* a call of analizar on a client's list is walking or has just returned,
\* and the analyser still holds its list and cursor
EnRecorrido(h) ==
    /\ codigo[h].tipo = "list"
    /\ pc[h] \in {"analizar", "fin"}
    /\ sintactico.errores = h

\* 0 <= cursor <= number of elements, and _avanzar at the end of the list
\* leaves the cursor where it is
cursor_acotado ==
    /\ sintactico.posicion \in 0..Len(sintactico.tokens)
    /\ sintactico.posicion = Len(sintactico.tokens) =>
           avanzar(analizador_actual).posicion = sintactico.posicion

\* within one call of analizar the cursor does not decrease
cursor_monotono ==
    sintactico'.errores = sintactico.errores =>
        sintactico'.posicion >= sintactico.posicion

\* the cursor of the returned call stands on an EOF token
en_fin_de_archivo ==
    /\ sintactico.posicion < Len(sintactico.tokens)
    /\ es_token(token_actual(analizador_actual))
    /\ token_actual(analizador_actual).tipo = "EOF"

TrasElLexico(h) ==
    codigo[h].tipo = "str" /\ pc[h] \in {"sintactico", "semantico", "fin"}

\* a step of call h made by the validator or the checker
paso_posterior(h) ==
    /\ codigo[h].tipo = "str"
    /\ pc[h] \in {"sintactico", "semantico"}
    /\ <<pc[h], local[h], semantico[h], resultado[h]>>'
           # <<pc[h], local[h], semantico[h], resultado[h]>>

\* C30: once tokenizar has returned, the token list of the call is the
\* scanner's output and no step of the validator or of the checker changes
\* it; the tokens of every result of a call that did not fault are that
\* list, whatever diagnostics the stages reported; and the step that runs
\* the second pass of the checker leaves the definition sets as the first
\* pass built them.
TokensReadOnly ==
    /\ [](\A h \in Hilos :
              TrasElLexico(h) =>
                  /\ local[h].tokens = tokenizar(codigo[h].valor).tokens
                  /\ Retorno(h) => Vista(h).tokens = local[h].tokens)
    /\ [][\A h \in Hilos :
              paso_posterior(h) =>
                  /\ local'[h].tokens = local[h].tokens
                  /\ pc[h] = "sintactico" /\ pc'[h] = "sintactico" =>
                         sintactico'.tokens = sintactico.tokens
                  /\ (pc[h] = "semantico" /\ pc'[h] = "fin") =>
                         /\ semantico[h].definiciones
                                = recopilar_definiciones(local[h].tokens)
                         /\ semantico'[h].definiciones = semantico[h].definiciones]_vars

\* two calls that did not fault have returned tokens: one with a SEMANTICO
\* diagnostic and definitions recorded by the first pass, one with a
\* SINTACTICO diagnostic
TokensReadOnlyWitness ==
    \E h, g \in Hilos :
        /\ Retorno(h) /\ codigo[h].tipo = "str"
        /\ Retorno(g) /\ codigo[g].tipo = "str"
        /\ Vista(h).tokens # << >>
        /\ Vista(h).errores_semanticos # << >>
        /\ semantico[h].definiciones # definiciones_vacias
        /\ Vista(g).tokens # << >>
        /\ Vista(g).errores_sintacticos # << >>

=============================================================================
